---- MODULE Spec2Model ----
(***************************************************************************)
(* Model of the promise-based LabelHandler (src/lib/labels.js, lines       *)
(* 1-266), of the copy-labels tool that drives it                          *)
(* (src/bin/copy-labels.js), of update-authors (src/lib/cli.js) and of the *)
(* landing tool (src/bin/land.js, src/unnamed/part_001).                   *)
(*                                                                         *)
(* A label name is a sequence of one-character strings, so that            *)
(* encodeURIComponent, the %22 replacement of getUsedLabels and the        *)
(* percent-decoding done by the hosting API are computed character by      *)
(* character.  The hosting API is the environment: it keeps the labels and *)
(* the issues of two repositories, serves every request from that state    *)
(* and may refuse any request.  A request is first sent, then served (the  *)
(* effect on the repository happens here), then its response is delivered  *)
(* to the client, where the awaiting async function continues up to its    *)
(* next await in the same step.                                            *)
(*                                                                         *)
(* Specifications: Spec (copyFrom, copyTo), SpecDelete (deleteIn),         *)
(* SpecDeleteTwice (deleteIn called again), SpecCreate (createIn,          *)
(* updateIn), SpecList (getFrom, getUsedLabels), SpecRequest (request),    *)
(* SpecTool (a run of copy-labels), SpecCopyAgain (copyFrom called again), *)
(* SpecDryReal (a dry run of copy-labels, then the run for real), SpecLive *)
(* (copyFrom, copyTo, deleteIn under weak fairness), SpecAuthors           *)
(* (update-authors), SpecLand (land.js), SpecTarget (the target-branch     *)
(* revision of the landing tool).                                          *)
(***************************************************************************)
EXTENDS Integers, Sequences, FiniteSets, TLC

\* ------------------------------------------------------------------ bounds
\* largest number of labels in a repository
MaxLabels == 2
\* largest number of labels in an explicit source array
MaxSource == 2
\* largest number of issues in a repository
MaxIssues == 1
\* records per page of a listing (stands for per_page=100 at model scale)
PerPage == 1
\* largest number of records of a listing that is fetched for its own sake
MaxRecords == 3
\* largest number of successive calls of deleteIn for the same label
MaxCalls == 2
\* largest number of commits of a history, and of a branch ahead of another
MaxCommits == 2

\* ------------------------------------------------------------- input sets
\* "b", "B", "a b", "a%20b", "q"" (a name ending in a double quote)
NameB == <<"b">>
NameUpperB == <<"B">>
NameSpace == <<"a", " ", "b">>
NamePercent == <<"a", "%", "2", "0", "b">>
NameQuote == <<"q", "\"">>

CopyNames == {NameB, NameUpperB, NamePercent}
DeleteNames == {NameB, NameSpace, NameQuote}
\* the names an array of names handed to deleteIn is made of
ArrayNames == {NameB, NameSpace}

NameRank(n) ==
  CASE n = NameB -> 1
    [] n = NameUpperB -> 2
    [] n = NameSpace -> 3
    [] n = NamePercent -> 4
    [] n = NameQuote -> 5
    [] OTHER -> 6

Colors == {"d73a4a", "ff0000"}
OldColor == "ff0000"
Descriptions == {"old", "new"}
OldDescription == "old"

CurRepo == "owner/cur"
OtherRepo == "owner/other"
Repos == {CurRepo, OtherRepo}

\* ---------------------------------------------------------------- helpers
Range(s) == {s[i] : i \in 1..Len(s)}

Min(a, b) == IF a < b THEN a ELSE b

RECURSIVE Flatten(_)
Flatten(ss) == IF ss = <<>> THEN <<>> ELSE Head(ss) \o Flatten(Tail(ss))

RECURSIVE SelectIdx(_, _, _)
\* the indices i of s, in order, from k on, for which keep[i] holds
SelectIdx(keep, n, k) ==
  IF k > n THEN <<>>
  ELSE (IF keep[k] THEN <<k>> ELSE <<>>) \o SelectIdx(keep, n, k + 1)

\* --------------------------------------------------------------- encoding
\* encodeURIComponent: the unreserved characters stand for themselves,
\* every other character becomes the percent-encoding of its UTF-8 byte
EncodeChar(c) ==
  CASE c = " " -> <<"%", "2", "0">>
    [] c = "\"" -> <<"%", "2", "2">>
    [] c = "%" -> <<"%", "2", "5">>
    [] c = "\\" -> <<"%", "5", "C">>
    [] OTHER -> <<c>>

encodeURIComponent(s) == Flatten([i \in 1..Len(s) |-> EncodeChar(s[i])])

RECURSIVE ReplaceQuote(_)
\* String.prototype.replace(/%22/g, '%5C"')
ReplaceQuote(s) ==
  IF s = <<>> THEN <<>>
  ELSE IF Len(s) >= 3 /\ SubSeq(s, 1, 3) = <<"%", "2", "2">>
       THEN <<"%", "5", "C", "\"">> \o ReplaceQuote(SubSeq(s, 4, Len(s)))
       ELSE <<Head(s)>> \o ReplaceQuote(Tail(s))

\* the key getUsedLabels stores for a label name
UsedKey(name) == ReplaceQuote(encodeURIComponent(name))

\* the character a percent-escape stands for
HexChar(h) ==
  CASE h = <<"2", "0">> -> " "
    [] h = <<"2", "2">> -> "\""
    [] h = <<"2", "5">> -> "%"
    [] h = <<"5", "C">> -> "\\"
    [] OTHER -> "?"

RECURSIVE DecodePath(_)
\* the percent-decoding the hosting API applies to a path segment
DecodePath(s) ==
  IF s = <<>> THEN <<>>
  ELSE IF Head(s) = "%" /\ Len(s) >= 3
       THEN <<HexChar(SubSeq(s, 2, 3))>> \o DecodePath(SubSeq(s, 4, Len(s)))
       ELSE <<Head(s)>> \o DecodePath(Tail(s))

\* ----------------------------------------------------------------- labels
NoName == <<>>
Label(n, c, d) == [name |-> n, color |-> c, description |-> d]
NoLabel == Label(NoName, "", "")

Names(ls) == {ls[i].name : i \in 1..Len(ls)}

DistinctNames(ls) == \A i, j \in 1..Len(ls) : ls[i].name = ls[j].name => i = j

\* a repository lists its labels in a fixed order of the names
Ordered(ls) == \A i, j \in 1..Len(ls) : i < j => NameRank(ls[i].name) < NameRank(ls[j].name)

RECURSIVE SeqsUpTo(_, _)
SeqsUpTo(S, n) ==
  IF n = 0 THEN {<<>>}
  ELSE LET shorter == SeqsUpTo(S, n - 1)
       IN shorter \cup {Append(s, x) : s \in {t \in shorter : Len(t) = n - 1}, x \in S}

\* the label lists a repository can hold
RepoLabelLists(names, colors, descs) ==
  {ls \in SeqsUpTo({Label(n, c, d) : n \in names, c \in colors, d \in descs}, MaxLabels) :
     Ordered(ls)}

HasName(ls, n) == \E i \in 1..Len(ls) : ls[i].name = n

IndexOfName(ls, n) == CHOOSE i \in 1..Len(ls) : ls[i].name = n

RemoveAt(s, i) == SubSeq(s, 1, i - 1) \o SubSeq(s, i + 1, Len(s))


\* ------------------------------------------------------------------ state
VARIABLES
  store,       \* hosting API: the label list of each repository
  issues,      \* hosting API: the issues of each repository
  before,      \* the label lists when the invocation was called
  reqs,        \* every request made so far, in the order of the calls
  op,          \* the invocation: function, arguments, caller
  pc,          \* where the invocation is
  acc,         \* getWithPaging: result
  labels,      \* copyFrom/copyTo: labels
  labelName,   \* deleteIn: labelName
  curLabels,   \* copyFrom/copyTo: curLabels
  usedLabels,  \* deleteIn/getUsedLabels: the keys of the Map
  slots,       \* the promises handed to Promise.all
  outcome,     \* the promise the invocation returned
  tool         \* the copy-labels tool: arguments, position, dump file written

vars == <<store, issues, before, reqs, op, pc, acc, labels, labelName, curLabels, usedLabels, slots, outcome, tool>>

Issue(s, ns) == [state |-> s, labels |-> ns]

\* a path of the hosting API with its query: /repos/{repo}/{res}[/{name}]
\* [?state=all][(?|&)per_page=n][&page=p]
Path(repo, res, name, all, perPage, page) ==
  [repo |-> repo, res |-> res, name |-> name, all |-> all, perPage |-> perPage, page |-> page]

\* getPath that puts the label name into the path as it is
getPathUnescaped(repo, lname) == Path(repo, "labels", lname, FALSE, 0, 0)

\* LabelHandler[getPath]
getPath(repo, lname) ==
  Path(repo, "labels", IF lname # NoName THEN encodeURIComponent(lname) ELSE NoName,
       FALSE, 0, 0)

\* path is undefined
NoPath == Path("", "", NoName, FALSE, 0, 0)

\* LabelHandler[request]: https.request(...), req.write(data), req.end()
Request(path, method, data, slot) ==
  [path |-> path, method |-> method, body |-> data, slot |-> slot,
   st |-> "sent", code |-> 0, data |-> <<>>, link |-> <<>>]

\* the test of the 'end' handler taking a DELETE of an absent label as done
SucceedsAbsent(method, code) ==
  \/ (method = "GET" \/ method = "PATCH") /\ code = 200
  \/ method = "POST" /\ code = 201
  \/ method = "DELETE" /\ code \in {204, 404}

\* the test of the 'end' handler taking any of the three codes for any method
SucceedsAnyMethod(method, code) == code \in {200, 201, 204}

\* the test of the 'end' handler of LabelHandler[request]
Succeeds(method, code) ==
  \/ (method = "GET" \/ method = "PATCH") /\ code = 200
  \/ method = "POST" /\ code = 201
  \/ method = "DELETE" /\ code = 204

\* ------------------------------------------------------------ hosting API
\* the records a listing path selects, before paging
Listing(path) ==
  IF path.res = "labels" THEN store[path.repo]
  ELSE LET all == issues[path.repo]
           keep == [i \in 1..Len(all) |-> path.all \/ all[i].state = "open"]
           idx == SelectIdx(keep, Len(all), 1)
       IN [k \in 1..Len(idx) |-> all[idx[k]]]

PageOf(path) == IF path.page = 0 THEN 1 ELSE path.page

\* the page of a listing and the page its Link header names as next (0: none)
PageData(path) ==
  LET all == Listing(path)
      size == IF path.perPage = 0 THEN Len(all) ELSE path.perPage
      first == (PageOf(path) - 1) * size + 1
  IN SubSeq(all, first, Min(Len(all), first + size - 1))

PageNext(path) ==
  LET all == Listing(path)
      size == IF path.perPage = 0 THEN Len(all) ELSE path.perPage
  IN IF PageOf(path) * size < Len(all) THEN PageOf(path) + 1 ELSE 0

\* the Link header of a page: <url>; rel="prev", <url>; rel="next",
\* <url>; rel="last", <url>; rel="first", each part present when that page
\* is another page than this one; a listing of one page has no Link header
LinkPart(path, page, rel) == [url |-> [path EXCEPT !.page = page], rel |-> rel]

LinkHeader(path) ==
  LET p == PageOf(path)
      next == PageNext(path)
      size == IF path.perPage = 0 THEN Len(Listing(path)) ELSE path.perPage
      last == IF size = 0 THEN 1 ELSE (Len(Listing(path)) + size - 1) \div size
  IN (IF p > 1 THEN <<LinkPart(path, p - 1, "prev")>> ELSE <<>>)
     \o (IF next # 0
         THEN <<LinkPart(path, next, "next"), LinkPart(path, last, "last")>>
         ELSE <<>>)
     \o (IF p > 1 THEN <<LinkPart(path, 1, "first")>> ELSE <<>>)

\* what the hosting API answers to request r in the current state:
\* status code, body, Link header, and the label list of the repository after
Answer(r) ==
  LET repo == r.path.repo
      ls == store[repo]
      name == DecodePath(r.path.name)
      reply(code, data, link, after) ==
        [code |-> code, data |-> data, link |-> link, after |-> after]
  IN CASE r.method = "GET" /\ r.path.name = NoName ->
            reply(200, PageData(r.path), LinkHeader(r.path), ls)
       [] r.method = "GET" /\ r.path.name # NoName ->
            IF HasName(ls, name)
            THEN reply(200, <<ls[IndexOfName(ls, name)]>>, <<>>, ls)
            ELSE reply(404, <<>>, <<>>, ls)
       [] r.method = "POST" ->
            IF HasName(ls, r.body.name) \/ r.body.name = NoName
            THEN reply(422, <<>>, <<>>, ls)
            ELSE reply(201, <<r.body>>, <<>>, Append(ls, r.body))
       [] r.method = "PATCH" ->
            IF ~HasName(ls, name) THEN reply(404, <<>>, <<>>, ls)
            ELSE LET i == IndexOfName(ls, name)
                     new == IF r.body.name = NoName
                            THEN [r.body EXCEPT !.name = name]
                            ELSE r.body
                 IN IF new.name # name /\ HasName(ls, new.name)
                    THEN reply(422, <<>>, <<>>, ls)
                    ELSE reply(200, <<new>>, <<>>, [ls EXCEPT ![i] = new])
       [] r.method = "DELETE" ->
            IF HasName(ls, name)
            THEN reply(204, <<>>, <<>>, RemoveAt(ls, IndexOfName(ls, name)))
            ELSE reply(404, <<>>, <<>>, ls)

\* the hosting API handles request i
Serve(i) ==
  /\ reqs[i].st = "sent"
  /\ LET r == reqs[i]
         a == Answer(r)
     IN /\ reqs' = [reqs EXCEPT ![i] = [r EXCEPT !.st = "served", !.code = a.code,
                                                 !.data = a.data, !.link = a.link]]
        /\ store' = [store EXCEPT ![r.path.repo] = a.after]
  /\ UNCHANGED <<issues, before, tool, op, pc, acc, labels, labelName, curLabels, usedLabels, slots, outcome>>

\* the hosting API refuses request i (rate limit, bad credentials, outage)
Refuse(i) ==
  /\ reqs[i].st = "sent"
  /\ reqs' = [reqs EXCEPT ![i] = [@ EXCEPT !.st = "served", !.code = 403]]
  /\ UNCHANGED <<store, issues, before, tool, op, pc, acc, labels, labelName, curLabels, usedLabels, slots, outcome>>


\* a socket error: the request or its response is lost
NetError(i) ==
  /\ reqs[i].st = "sent" \/ (reqs[i].st = "served" /\ reqs[i].code # 0)
  /\ reqs' = [reqs EXCEPT ![i] = [@ EXCEPT !.st = "served", !.code = 0,
                                           !.data = <<>>, !.link = <<>>]]
  /\ UNCHANGED <<store, issues, before, tool, op, pc, acc, labels, labelName, curLabels, usedLabels, slots, outcome>>

\* ------------------------------------------------------------ the client
\* the invocation: fn(repo, ...) called by caller
Invocation(fn, caller, repo, kind, list, update, names, lname) ==
  [fn |-> fn, caller |-> caller, repo |-> repo, kind |-> kind, list |-> list,
   update |-> update, names |-> names, labelName |-> lname]

NoError == [kind |-> "none", req |-> 0]
Pending == [st |-> "pending", value |-> <<>>, error |-> NoError]
Resolved(v) == [st |-> "resolved", value |-> v, error |-> NoError]
Rejected(kind, i) == [st |-> "rejected", value |-> <<>>, error |-> [kind |-> kind, req |-> i]]

\* a promise before it is handed to Promise.all: a request to make, a value
\* (Promise.resolve(null)) or a rejection (Promise.reject(new Error(...)))
PRequest(r) == [kind |-> "request", req |-> r]
PNull == [kind |-> "null", req |-> Request(getPath(CurRepo, NoName), "GET", NoLabel, 0)]
PReject == [kind |-> "reject", req |-> Request(getPath(CurRepo, NoName), "GET", NoLabel, 0)]

\* getWithPaging: the request of the first page, path += per_page=100
FirstPage(path) == Request([path EXCEPT !.perPage = PerPage], "GET", NoLabel, 0)

\* parseLinkHeader: the Map from each rel to its url, a later part of the
\* header replacing an earlier one of the same rel
parseLinkHeader(link) ==
  [rel \in {link[k].rel : k \in 1..Len(link)} |->
     link[CHOOSE k \in 1..Len(link) :
            /\ link[k].rel = rel
            /\ \A j \in (k + 1)..Len(link) : link[j].rel # rel].url]

\* Map.prototype.get
MapGet(m, key) == IF key \in DOMAIN m THEN m[key] ELSE NoPath

\* getWithPaging following the rel="last" part of the header
NextPathLast(link) ==
  IF link = <<>> THEN NoPath ELSE MapGet(parseLinkHeader(link), "last")

\* getWithPaging: if (!headers.link) break;
\* path = parseLinkHeader(headers.link).get('next')
NextPath(link) ==
  IF link = <<>> THEN NoPath ELSE MapGet(parseLinkHeader(link), "next")

\* getWithPaging: the request of the page the Link header names
NextPage(path) == Request(path, "GET", NoLabel, 0)

\* the path of a listing of the open issues only
IssuesPathOpenOnly(repo) == Path(repo, "issues", NoName, FALSE, 0, 0)

\* getUsedLabels: the path of the issue listing
IssuesPath(repo) == Path(repo, "issues", NoName, TRUE, 0, 0)

\* createIn(repo, label) for a single label, up to its await
createIn(repo, label) == PRequest(Request(getPath(repo, NoName), "POST", label, 0))

\* updateIn taking label.name before labelName
updateInLabelFirst(repo, label, lname) ==
  LET name == IF label.name # NoName THEN label.name ELSE lname
  IN IF name = NoName THEN PReject
     ELSE PRequest(Request(getPath(repo, name), "PATCH", label, 0))

\* updateIn(repo, label, labelName), up to its await
updateIn(repo, label, lname) ==
  LET name == IF lname # NoName THEN lname ELSE label.name
  IN IF name = NoName THEN PReject
     ELSE PRequest(Request(getPath(repo, name), "PATCH", label, 0))

\* the repository copyFrom/copyTo write to
TargetRepo(o) == IF o.fn = "copyTo" THEN o.repo ELSE CurRepo

\* the repository copyFrom/copyTo read the labels from
SourceRepo(o) == IF o.fn = "copyTo" THEN CurRepo ELSE o.repo

\* the map of copyFrom/copyTo creating every label it does not update
ClassifyNoSkip(repo, ls, cur, update) ==
  [k \in 1..Len(ls) |->
     IF ls[k].name \in cur /\ update
     THEN updateIn(repo, ls[k], NoName)
     ELSE createIn(repo, ls[k])]

\* the map of copyFrom/copyTo updating an existing label whatever the flag
ClassifyAlwaysUpdate(repo, ls, cur, update) ==
  [k \in 1..Len(ls) |->
     IF ls[k].name \in cur
     THEN updateIn(repo, ls[k], NoName)
     ELSE createIn(repo, ls[k])]

\* copyFrom/copyTo: labels.map(label => ...)
Classify(repo, ls, cur, update) ==
  [k \in 1..Len(ls) |->
     IF ls[k].name \in cur
     THEN IF update THEN updateIn(repo, ls[k], NoName) ELSE PNull
     ELSE createIn(repo, ls[k])]

\* getUsedLabels: the Map built from the issues, as the sequence of its
\* entries in insertion order
UsedUrl(repo, key) == [repo |-> repo, q |-> <<"label%3A", key>>]

MapHas(m, key) == \E i \in 1..Len(m) : m[i].key = key

RECURSIVE UsedLabelsOf(_, _, _)
UsedLabelsOf(repo, names, result) ==
  IF names = <<>> THEN result
  ELSE LET name == UsedKey(Head(names))
       IN UsedLabelsOf(repo, Tail(names),
            IF ~MapHas(result, name)
            THEN Append(result, [key |-> name, url |-> UsedUrl(repo, name)])
            ELSE result)

\* a usage index that never has a key
getUsedLabelsNone(repo, data) == <<>>

getUsedLabels(repo, data) ==
  UsedLabelsOf(repo, Flatten([i \in 1..Len(data) |-> data[i].labels]), <<>>)

\* deleteIn without the filter of the used labels
FilterNone(names, used) == names

\* deleteIn: labelName.filter(name => !usedLabels.has(name))
FilterUnused(names, used) ==
  LET idx == SelectIdx([i \in 1..Len(names) |-> ~MapHas(used, names[i])], Len(names), 1)
  IN [k \in 1..Len(idx) |-> names[idx[k]]]

\* deleteIn: labelName.map(name => this[request](this[getPath](repo, name), 'DELETE'))
DeleteAll(repo, names) ==
  [k \in 1..Len(names) |-> PRequest(Request(getPath(repo, names[k]), "DELETE", NoLabel, 0))]

\* createIn: label.map(label => this[request](path, 'POST', JSON.stringify(label)))
CreateAll(repo, ls) == [k \in 1..Len(ls) |-> createIn(repo, ls[k])]

\* the requests a sequence of promises makes, in order, each with its position
BatchRequests(ps) ==
  LET idx == SelectIdx([k \in 1..Len(ps) |-> ps[k].kind = "request"], Len(ps), 1)
  IN [j \in 1..Len(idx) |-> [ps[idx[j]].req EXCEPT !.slot = idx[j]]]

\* the state of each promise right after the calls
BatchSlots(ps) ==
  [k \in 1..Len(ps) |->
     [st |-> CASE ps[k].kind = "request" -> "pending"
               [] ps[k].kind = "null" -> "fulfilled"
               [] OTHER -> "rejected",
      val |-> NoLabel]]

\* the filter of copyFrom/copyTo with its test inverted
NonNullInverted(sl) ==
  LET idx == SelectIdx([k \in 1..Len(sl) |-> sl[k].val = NoLabel], Len(sl), 1)
  IN [j \in 1..Len(idx) |-> sl[idx[j]].val]

\* copyFrom/copyTo returning the results unfiltered
NonNullUnfiltered(sl) == [j \in 1..Len(sl) |-> sl[j].val]

\* labels.filter(label => label)
NonNull(sl) ==
  LET idx == SelectIdx([k \in 1..Len(sl) |-> sl[k].val # NoLabel], Len(sl), 1)
  IN [j \in 1..Len(idx) |-> sl[idx[j]].val]

\* a caller that catches the rejection and goes on as if the call had resolved
RejectedPcSwallowed == "done"

\* where a rejection of the invocation leads: copyLabels catches it and calls
\* helpExit, which ends the process; another caller keeps the rejected promise
RejectedPc == IF op.caller = "copyLabels" THEN "exited" ELSE "failed"

\* a Promise.all that is fulfilled as soon as one of its promises is (or
\* when it has none)
SettleAny(sl, i, used) ==
  IF \E k \in 1..Len(sl) : sl[k].st = "rejected"
  THEN /\ outcome' = Rejected(IF i = 0 THEN "Error" ELSE "request", i)
       /\ pc' = RejectedPc
  ELSE IF sl = <<>> \/ \E k \in 1..Len(sl) : sl[k].st = "fulfilled"
       THEN /\ outcome' = Resolved(IF op.fn = "deleteIn" THEN used ELSE NonNull(sl))
            /\ pc' = "done"
       ELSE /\ outcome' = outcome
            /\ pc' = "batch"

\* await Promise.all(sl) after request i (0: none) has been delivered, and
\* the return statement after it; used is the Map deleteIn returns
Settle(sl, i, used) ==
  IF \E k \in 1..Len(sl) : sl[k].st = "rejected"
  THEN /\ outcome' = Rejected(IF i = 0 THEN "Error" ELSE "request", i)
       /\ pc' = RejectedPc
  ELSE IF \A k \in 1..Len(sl) : sl[k].st = "fulfilled"
       THEN /\ outcome' = Resolved(IF op.fn = "deleteIn" THEN used ELSE NonNull(sl))
            /\ pc' = "done"
       ELSE /\ outcome' = outcome
            /\ pc' = "batch"

\* a Promise.all that is settled by the answer to a request only, never
\* when it is made
BatchUnsettled(ps, log, used) ==
  /\ reqs' = log \o BatchRequests(ps)
  /\ slots' = BatchSlots(ps)
  /\ outcome' = outcome
  /\ pc' = "batch"

\* Promise.all(ps) with log the requests made before
Batch(ps, log, used) ==
  /\ reqs' = log \o BatchRequests(ps)
  /\ slots' = BatchSlots(ps)
  /\ Settle(BatchSlots(ps), 0, used)

\* request i left as it is although the function awaiting it goes on
DoneUnconsumed(i) == reqs

\* request i with its response consumed: its promise is resolved or rejected
Done(i) ==
  [reqs EXCEPT ![i] = [@ EXCEPT !.st = IF Succeeds(reqs[i].method, reqs[i].code)
                                        THEN "ok" ELSE "failed",
                                !.code = 0, !.data = <<>>, !.link = <<>>]]


\* the label(s) argument as an array: if (!Array.isArray(labels)) labels = [labels]
AsArray(o) == o.list

\* the call of the invocation, up to its first await
Start ==
  /\ pc = "start"
  /\ UNCHANGED <<store, issues, before, tool, op, acc, curLabels, usedLabels>>
  /\ CASE op.fn \in {"copyFrom", "copyTo"} ->
            \* copyFrom: typeof labels === 'string'; copyTo: !labels
            IF op.kind = "repo"
            THEN /\ reqs' = Append(reqs, FirstPage(getPath(SourceRepo(op), NoName)))
                 /\ pc' = "srcList"
                 /\ UNCHANGED <<labels, labelName, slots, outcome>>
            ELSE /\ labels' = AsArray(op)
                 /\ reqs' = Append(reqs, FirstPage(getPath(TargetRepo(op), NoName)))
                 /\ pc' = "dstList"
                 /\ UNCHANGED <<labelName, slots, outcome>>
       [] op.fn = "deleteIn" ->
            IF op.kind = "none"
            THEN /\ reqs' = Append(reqs, FirstPage(getPath(op.repo, NoName)))
                 /\ pc' = "labelList"
                 /\ UNCHANGED <<labels, labelName, slots, outcome>>
            ELSE /\ labelName' = op.names
                 /\ reqs' = Append(reqs, FirstPage(IssuesPath(op.repo)))
                 /\ pc' = "issueList"
                 /\ UNCHANGED <<labels, slots, outcome>>
       [] op.fn = "createIn" ->
            IF op.kind = "array"
            THEN \* Promise.all(...) is made, then .map of a promise throws
                 /\ reqs' = reqs \o BatchRequests(CreateAll(op.repo, op.list))
                 /\ slots' = BatchSlots(CreateAll(op.repo, op.list))
                 /\ outcome' = Rejected("TypeError", 0)
                 /\ pc' = RejectedPc
                 /\ UNCHANGED <<labels, labelName>>
            ELSE /\ reqs' = Append(reqs, createIn(op.repo, op.list[1]).req)
                 /\ pc' = "single"
                 /\ UNCHANGED <<labels, labelName, slots, outcome>>
       [] op.fn = "getFrom" ->
            IF op.labelName # NoName
            THEN /\ reqs' = Append(reqs, Request(getPath(op.repo, op.labelName), "GET", NoLabel, 0))
                 /\ pc' = "single"
                 /\ UNCHANGED <<labels, labelName, slots, outcome>>
            ELSE /\ reqs' = Append(reqs, FirstPage(getPath(op.repo, NoName)))
                 /\ pc' = "list"
                 /\ UNCHANGED <<labels, labelName, slots, outcome>>
       [] op.fn = "getUsedLabels" ->
            /\ reqs' = Append(reqs, FirstPage(IssuesPath(op.repo)))
            /\ pc' = "usedList"
            /\ UNCHANGED <<labels, labelName, slots, outcome>>
       [] op.fn = "request" ->
            /\ reqs' = Append(reqs, Request(getPath(op.repo, op.labelName), op.method,
                                            IF op.method \in {"POST", "PATCH"}
                                            THEN op.list[1] ELSE NoLabel, 0))
            /\ pc' = "request"
            /\ UNCHANGED <<labels, labelName, slots, outcome>>
       [] op.fn = "updateIn" ->
            LET p == updateIn(op.repo, op.list[1], op.labelName)
            IN IF p.kind = "reject"
               THEN /\ outcome' = Rejected("Error", 0)
                    /\ pc' = RejectedPc
                    /\ UNCHANGED <<reqs, labels, labelName, slots>>
               ELSE /\ reqs' = Append(reqs, p.req)
                    /\ pc' = "single"
                    /\ UNCHANGED <<labels, labelName, slots, outcome>>

\* the awaiting function continues after getWithPaging has returned items;
\* log is the requests made so far
AfterListing(items, log) ==
  CASE pc = "srcList" ->
         \* labels = await this.getFrom(labels), then await this.get()
         /\ labels' = items
         /\ reqs' = Append(log, FirstPage(getPath(TargetRepo(op), NoName)))
         /\ pc' = "dstList"
         /\ UNCHANGED <<labelName, curLabels, usedLabels, slots, outcome>>
    [] pc = "dstList" ->
         /\ curLabels' = Names(items)
         /\ Batch(Classify(TargetRepo(op), labels, Names(items), op.update), log, usedLabels)
         /\ UNCHANGED <<labels, labelName, usedLabels>>
    [] pc = "labelList" ->
         \* labelName = (await this.getFrom(repo)).map(label => label.name)
         /\ labelName' = [k \in 1..Len(items) |-> items[k].name]
         /\ reqs' = Append(log, FirstPage(IssuesPath(op.repo)))
         /\ pc' = "issueList"
         /\ UNCHANGED <<labels, curLabels, usedLabels, slots, outcome>>
    [] pc = "issueList" ->
         LET used == getUsedLabels(op.repo, items)
             names == FilterUnused(labelName, used)
         IN /\ usedLabels' = used
            /\ labelName' = names
            /\ Batch(DeleteAll(op.repo, names), log, used)
            /\ UNCHANGED <<labels, curLabels>>
    [] pc = "list" ->
         \* getFrom: return this[getWithPaging](path)
         /\ reqs' = log
         /\ outcome' = Resolved(items)
         /\ pc' = "done"
         /\ UNCHANGED <<labels, labelName, curLabels, usedLabels, slots>>
    [] pc = "usedList" ->
         /\ reqs' = log
         /\ outcome' = Resolved(getUsedLabels(op.repo, items))
         /\ pc' = "done"
         /\ UNCHANGED <<labels, labelName, curLabels, usedLabels, slots>>

\* getWithPaging returning the pages it has when the request of a page fails
DeliverPagePartial(i) ==
  /\ pc \in {"srcList", "dstList", "labelList", "issueList", "list", "usedList"}
  /\ i = Len(reqs)
  /\ reqs[i].st = "served"
  /\ UNCHANGED <<store, issues, before, tool, op>>
  /\ IF Succeeds(reqs[i].method, reqs[i].code) /\ NextPath(reqs[i].link) # NoPath
     THEN /\ acc' = acc \o reqs[i].data
          /\ reqs' = Append(Done(i), NextPage(NextPath(reqs[i].link)))
          /\ UNCHANGED <<pc, labels, labelName, curLabels, usedLabels, slots, outcome>>
     ELSE /\ acc' = <<>>
          /\ AfterListing(acc \o reqs[i].data, Done(i))

\* getWithPaging: the response to the request of a page arrives
DeliverPage(i) ==
  /\ pc \in {"srcList", "dstList", "labelList", "issueList", "list", "usedList"}
  /\ i = Len(reqs)
  /\ reqs[i].st = "served"
  /\ UNCHANGED <<store, issues, before, tool, op>>
  /\ IF Succeeds(reqs[i].method, reqs[i].code)
     THEN LET result == acc \o reqs[i].data
          IN IF NextPath(reqs[i].link) # NoPath
             THEN /\ acc' = result
                  /\ reqs' = Append(Done(i), NextPage(NextPath(reqs[i].link)))
                  /\ UNCHANGED <<pc, labels, labelName, curLabels, usedLabels, slots, outcome>>
             ELSE /\ acc' = <<>>
                  /\ AfterListing(result, Done(i))
     ELSE /\ acc' = <<>>
          /\ reqs' = Done(i)
          /\ outcome' = Rejected("request", i)
          /\ pc' = RejectedPc
          /\ UNCHANGED <<labels, labelName, curLabels, usedLabels, slots>>

\* createIn/updateIn of one label: the response to its request arrives
DeliverSingle(i) ==
  /\ pc = "single"
  /\ i = Len(reqs)
  /\ reqs[i].st = "served"
  /\ reqs' = Done(i)
  /\ IF Succeeds(reqs[i].method, reqs[i].code)
     THEN outcome' = Resolved(reqs[i].data) /\ pc' = "done"
     ELSE outcome' = Rejected("request", i) /\ pc' = RejectedPc
  /\ UNCHANGED <<store, issues, before, tool, op, acc, labels, labelName, curLabels, usedLabels, slots>>

\* the response to a request made for Promise.all arrives and its result
\* takes the first free place instead of the place of its promise
DeliverBatchByArrival(i) ==
  /\ pc \in {"batch", "done", "failed"}
  /\ reqs[i].slot # 0
  /\ reqs[i].st = "served"
  /\ reqs' = Done(i)
  /\ LET ok == Succeeds(reqs[i].method, reqs[i].code)
         free == CHOOSE k \in 1..Len(slots) :
                   /\ slots[k].st = "pending"
                   /\ \A j \in 1..(k - 1) : slots[j].st # "pending"
         sl == [slots EXCEPT ![free] =
                  [st |-> IF ok THEN "fulfilled" ELSE "rejected",
                   val |-> IF ok /\ reqs[i].data # <<>> THEN reqs[i].data[1] ELSE NoLabel]]
     IN /\ slots' = sl
        /\ IF outcome.st = "pending" THEN Settle(sl, i, usedLabels) ELSE UNCHANGED <<pc, outcome>>
  /\ UNCHANGED <<store, issues, before, tool, op, acc, labels, labelName, curLabels, usedLabels>>

\* the response to a request made for Promise.all arrives
DeliverBatch(i) ==
  /\ pc \in {"batch", "done", "failed"}
  /\ reqs[i].slot # 0
  /\ reqs[i].st = "served"
  /\ reqs' = Done(i)
  /\ LET ok == Succeeds(reqs[i].method, reqs[i].code)
         sl == [slots EXCEPT ![reqs[i].slot] =
                  [st |-> IF ok THEN "fulfilled" ELSE "rejected",
                   val |-> IF ok /\ reqs[i].data # <<>> THEN reqs[i].data[1] ELSE NoLabel]]
     IN /\ slots' = sl
        /\ IF outcome.st = "pending" THEN Settle(sl, i, usedLabels) ELSE UNCHANGED <<pc, outcome>>
  /\ UNCHANGED <<store, issues, before, tool, op, acc, labels, labelName, curLabels, usedLabels>>

\* --------------------------------------------------- the copy-labels tool
\* no dump file has been written
NoDump == [written |-> FALSE, data |-> <<>>]

NoReport == [deleted |-> <<>>, added |-> <<>>, updated |-> <<>>, unchanged |-> <<>>]

\* the arguments of a run of the tool, where it is (phase), the labels it
\* has got, the usedLabels that deleteLabels has returned to copy, the
\* dump file it has written, and what a dry run has printed: the labels to
\* delete (of the labels dryDelete has listed), to add and to update, and
\* the labels that will not be changed
ToolArgs(dry, del, update, srcFile, dstFile, file) ==
  [phase |-> "init", dry |-> dry, del |-> del, update |-> update,
   srcFile |-> srcFile, dstFile |-> dstFile, file |-> file,
   labels |-> <<>>, used |-> <<>>, dump |-> NoDump,
   listed |-> <<>>, report |-> NoReport]

\* LabelHandler is used without the tool
NoTool == [ToolArgs(FALSE, FALSE, FALSE, FALSE, FALSE, <<>>) EXCEPT !.phase = "none"]

\* a tool that takes no run for a dry run
IsDryNever(t) == FALSE

\* args.dry
IsDry(t) == t.dry

\* a call of a LabelHandler function by the tool
HandlerCall(fn, repo, kind, list, update) ==
  Invocation(fn, "copyLabels", repo, kind, list, update, <<>>, NoName)

\* the tool calls a LabelHandler function and awaits it
Call(o) ==
  /\ op' = o
  /\ pc' = "start"
  /\ outcome' = Pending
  /\ acc' = <<>>
  /\ labels' = <<>>
  /\ labelName' = <<>>
  /\ curLabels' = {}
  /\ usedLabels' = <<>>
  /\ slots' = <<>>

\* the tool ends: "finished" after printing, "exited" by helpExit
End(t, p) ==
  /\ tool' = [t EXCEPT !.phase = "end"]
  /\ pc' = p
  /\ UNCHANGED <<op, outcome, acc, labels, labelName, curLabels, usedLabels, slots>>

\* copyLabels(args, handler, labels)
copyLabels(t, ls) ==
  IF t.dstFile
  THEN End([t EXCEPT !.labels = ls, !.dump = [written |-> TRUE, data |-> ls]], "finished")
  ELSE /\ tool' = [t EXCEPT !.labels = ls, !.phase = "copy"]
       /\ Call(HandlerCall("copyFrom", OtherRepo, "array", ls, t.update))

\* labels.filter(keep), keep given for each position
FilterLabels(ls, keep) ==
  LET idx == SelectIdx(keep, Len(ls), 1)
  IN [k \in 1..Len(idx) |-> ls[idx[k]]]

\* dryDelete: printLabels(labels.filter(({ name }) => !usedLabels.has(name)))
dryDelete(ls, used) ==
  FilterLabels(ls, [i \in 1..Len(ls) |-> ~MapHas(used, ls[i].name)])

\* a report of the labels to add that takes no notice of --delete
printAddedLabelsKept(t, ls, existingLabels, used) ==
  FilterLabels(ls, [i \in 1..Len(ls) |-> ~HasName(existingLabels, ls[i].name)])

\* printAddedLabels(args, labels, existingLabels, usedLabels)
printAddedLabels(t, ls, existingLabels, used) ==
  FilterLabels(ls, [i \in 1..Len(ls) |->
    IF HasName(existingLabels, ls[i].name)
    THEN t.del /\ ~MapHas(used, ls[i].name)
    ELSE TRUE])

\* printUpdatedLabels(args, labels, existingLabels, usedLabels), the list
\* after 'from:'; dryCopyLabels calls it with --update only
printUpdatedLabels(t, ls, existingLabels, used) ==
  IF ~t.update THEN <<>>
  ELSE FilterLabels(ls, [i \in 1..Len(ls) |->
         IF HasName(existingLabels, ls[i].name)
         THEN ~t.del \/ MapHas(used, ls[i].name)
         ELSE FALSE])

\* printUnchangedLabels(args, labels, existingLabels, usedLabels)
printUnchangedLabels(t, ls, existingLabels, used) ==
  FilterLabels(existingLabels, [i \in 1..Len(existingLabels) |->
    IF HasName(ls, existingLabels[i].name)
    THEN ~t.update /\ (~t.del \/ MapHas(used, existingLabels[i].name))
    ELSE TRUE])

\* dryCopyLabels(args, handler, labels, usedLabels)
dryCopyLabels(t, ls) ==
  IF t.dstFile
  THEN End([t EXCEPT !.labels = ls], "finished")
  ELSE /\ tool' = [t EXCEPT !.labels = ls, !.phase = "dryCopy"]
       /\ Call(HandlerCall("getFrom", CurRepo, "none", <<>>, FALSE))

\* copy, after getLabels has returned
AfterGetLabels(t, ls) == IF IsDry(t) THEN dryCopyLabels(t, ls) ELSE copyLabels(t, ls)

\* getLabels(args, handler)
getLabels(t) ==
  IF t.srcFile
  THEN AfterGetLabels(t, t.file)
  ELSE /\ tool' = [t EXCEPT !.phase = "getLabels"]
       /\ Call(HandlerCall("getFrom", OtherRepo, "none", <<>>, FALSE))

\* deleteLabels(args, handler), up to the first await
deleteLabels(t) ==
  IF IsDry(t)
  THEN /\ tool' = [t EXCEPT !.phase = "dryDelete"]
       /\ Call(HandlerCall("getFrom", CurRepo, "none", <<>>, FALSE))
  ELSE /\ tool' = [t EXCEPT !.phase = "delete"]
       /\ Call(HandlerCall("deleteIn", CurRepo, "none", <<>>, FALSE))

\* copy(args): the tool goes on from where it is to its next await, when the
\* LabelHandler function it awaited has resolved
ToolCopy ==
  /\ UNCHANGED <<store, issues, before, reqs>>
  /\ CASE tool.phase = "init" /\ pc = "idle" ->
            \* getConfig, then deleteLabels or getLabels
            IF tool.srcFile /\ tool.dstFile THEN End(tool, "exited")
            ELSE IF ~tool.dstFile /\ tool.del THEN deleteLabels(tool)
            ELSE getLabels(tool)
       [] tool.phase = "dryDelete" /\ pc = "done" ->
            \* dryDelete: usedLabels = await handler.getUsedLabels(args.dstRepo)
            /\ tool' = [tool EXCEPT !.phase = "dryUsed", !.listed = outcome.value]
            /\ Call(HandlerCall("getUsedLabels", CurRepo, "none", <<>>, FALSE))
       [] tool.phase = "dryUsed" /\ pc = "done" ->
            \* deleteLabels: usedLabels = await dryDelete(args, handler)
            getLabels([tool EXCEPT !.used = outcome.value,
                                   !.report.deleted = dryDelete(tool.listed, outcome.value)])
       [] tool.phase = "delete" /\ pc = "done" ->
            \* deleteLabels: await handler.delete(), its value is dropped
            getLabels(tool)
       [] tool.phase = "getLabels" /\ pc = "done" ->
            AfterGetLabels(tool, outcome.value)
       [] tool.phase = "dryCopy" /\ pc = "done" ->
            \* existingLabels = await getExistingLabels(handler), and the prints
            End([tool EXCEPT
                   !.report.added = printAddedLabels(tool, tool.labels, outcome.value, tool.used),
                   !.report.updated = printUpdatedLabels(tool, tool.labels, outcome.value, tool.used),
                   !.report.unchanged = printUnchangedLabels(tool, tool.labels, outcome.value, tool.used)],
                "finished")
       [] tool.phase = "copy" /\ pc = "done" ->
            End([tool EXCEPT !.labels = outcome.value], "finished")
       [] OTHER -> FALSE

\* ---------------------------------------------------------- invocations
Bodies == {<<"d73a4a", "new">>, <<"ff0000", "old">>}

SourceLabels == {Label(n, b[1], b[2]) : n \in CopyNames, b \in Bodies}

\* the labels the array handed to copyFrom by copyLabels is made of
DumpLabels == {l \in SourceLabels : l.name \in {NameB, NamePercent}}

\* copyFrom(labels, updateExistingLabels) and copyTo(repo,
\* updateExistingLabels, labels) called directly with one label or with a
\* repository to read the labels from, and copyFrom called by copyLabels of
\* the copy-labels tool with the array getLabels returned (a file dump may
\* name a label twice)
CopyInvocations ==
  {Invocation(fn, "direct", OtherRepo, "object", <<l>>, u, <<>>, NoName) :
     fn \in {"copyFrom", "copyTo"}, l \in SourceLabels, u \in BOOLEAN}
  \cup {Invocation(fn, "direct", OtherRepo, "repo", <<>>, u, <<>>, NoName) :
     fn \in {"copyFrom", "copyTo"}, u \in BOOLEAN}
  \cup {Invocation("copyFrom", "copyLabels", OtherRepo, "array", ls, u, <<>>, NoName) :
     ls \in SeqsUpTo(DumpLabels, MaxSource), u \in BOOLEAN}

InitClient ==
  /\ before = store
  /\ reqs = <<>>
  /\ pc = "start"
  /\ acc = <<>>
  /\ labels = <<>>
  /\ labelName = <<>>
  /\ curLabels = {}
  /\ usedLabels = <<>>
  /\ slots = <<>>
  /\ outcome = Pending

Init ==
  /\ tool = NoTool
  /\ op \in CopyInvocations
  /\ \E dst \in RepoLabelLists(CopyNames, {OldColor}, {OldDescription}) :
       \E src \in IF op.kind = "repo"
                  THEN {ls \in SeqsUpTo(SourceLabels, MaxLabels) : Ordered(ls)}
                  ELSE {<<>>} :
         store = [r \in Repos |-> IF r = TargetRepo(op) THEN dst ELSE src]
  /\ issues = [r \in Repos |-> <<>>]
  /\ InitClient

Next ==
  \/ Start
  \/ \E i \in 1..Len(reqs) : Serve(i)
  \/ \E i \in 1..Len(reqs) : Refuse(i)
  \/ \E i \in 1..Len(reqs) : NetError(i)
  \/ \E i \in 1..Len(reqs) : DeliverPage(i)
  \/ \E i \in 1..Len(reqs) : DeliverBatch(i)

Spec == Init /\ [][Next]_vars


\* ------------------------------------------------------------- deleteIn
\* deleteIn(repo) (all labels), deleteIn(repo, name), deleteIn(repo, names)
DeleteInvocations ==
  {Invocation("deleteIn", "direct", CurRepo, "none", <<>>, FALSE, <<>>, NoName)}
  \cup {Invocation("deleteIn", "direct", CurRepo, "string", <<>>, FALSE, <<n>>, NoName) :
     n \in DeleteNames}
  \cup {Invocation("deleteIn", "direct", CurRepo, "array", <<>>, FALSE, ns, NoName) :
     ns \in SeqsUpTo(ArrayNames, MaxSource)}

\* the label lists an issue of a repository with the labels ls can carry:
\* no label or one label
IssueLabelLists(ls) == {<<>>} \cup {<<n>> : n \in Names(ls)}

InitDelete ==
  /\ tool = NoTool
  /\ op \in DeleteInvocations
  /\ \E ls \in RepoLabelLists(DeleteNames, {OldColor}, {OldDescription}) :
       /\ store = [r \in Repos |-> IF r = op.repo THEN ls ELSE <<>>]
       /\ \E iss \in SeqsUpTo({Issue(st, ns) : st \in {"open", "closed"},
                                               ns \in IssueLabelLists(ls)}, MaxIssues) :
            issues = [r \in Repos |-> IF r = op.repo THEN iss ELSE <<>>]
  /\ InitClient

SpecDelete == InitDelete /\ [][Next]_vars

\* --------------------------------------------------- createIn, updateIn
\* createIn(repo, label), createIn(repo, labels), updateIn(repo, label),
\* updateIn(repo, label, labelName); a label may come without a name
CreateInvocations ==
  {Invocation("createIn", "direct", CurRepo, "array", ls, FALSE, <<>>, NoName) :
     ls \in SeqsUpTo(SourceLabels, MaxSource)}
  \cup {Invocation("createIn", "direct", CurRepo, "object", <<l>>, FALSE, <<>>, NoName) :
     l \in SourceLabels}
  \cup {Invocation("updateIn", "direct", CurRepo, "object", <<l>>, FALSE, <<>>, n) :
     l \in SourceLabels \cup {Label(NoName, b[1], b[2]) : b \in Bodies},
     n \in CopyNames \cup {NoName}}

InitCreate ==
  /\ tool = NoTool
  /\ op \in CreateInvocations
  /\ \E ls \in RepoLabelLists(CopyNames, {OldColor}, {OldDescription}) :
       store = [r \in Repos |-> IF r = op.repo THEN ls ELSE <<>>]
  /\ issues = [r \in Repos |-> <<>>]
  /\ InitClient

NextCreate ==
  \/ Start
  \/ \E i \in 1..Len(reqs) : Serve(i)
  \/ \E i \in 1..Len(reqs) : Refuse(i)
  \/ \E i \in 1..Len(reqs) : NetError(i)
  \/ \E i \in 1..Len(reqs) : DeliverSingle(i)
  \/ \E i \in 1..Len(reqs) : DeliverBatch(i)

SpecCreate == InitCreate /\ [][NextCreate]_vars


\* ------------------------------------------------------------ properties
\* the names attached to at least one issue (open or closed) of a repository
AttachedNames(repo) == UNION {Range(issues[repo][k].labels) : k \in 1..Len(issues[repo])}

\* the requests with the given method made for label name n of a repository
RequestsFor(method, repo, n) ==
  {i \in 1..Len(reqs) : /\ reqs[i].method = method
                        /\ reqs[i].path.repo = repo
                        /\ reqs[i].path.res = "labels"
                        /\ reqs[i].path.name # NoName
                        /\ DecodePath(reqs[i].path.name) = n}

\* the invocation has come to its Promise.all
BatchIssued ==
  \/ pc \in {"batch", "done"}
  \/ /\ pc \in {"failed", "exited"}
     /\ outcome.error.kind = "request" => reqs[outcome.error.req].slot # 0

IsCopy == op.fn \in {"copyFrom", "copyTo"}

\* the source labels of copyFrom/copyTo and the destination snapshot
Source == IF op.kind = "repo" THEN before[SourceRepo(op)] ELSE op.list

Destination == before[TargetRepo(op)]

\* C1: deleteIn never issues a DELETE request for a label that is attached
\* to at least one issue of the repository, whatever characters the name has
C1_DeleteProtection ==
  \A i \in 1..Len(reqs) :
    reqs[i].method = "DELETE" =>
      DecodePath(reqs[i].path.name) \notin AttachedNames(reqs[i].path.repo)

SlotRequests(k) == {i \in 1..Len(reqs) : reqs[i].slot = k /\ reqs[i].method # "GET"}

\* the source labels copyFrom/copyTo has to create or update, in source order
ExpectedApplied ==
  LET idx == SelectIdx([k \in 1..Len(Source) |->
                          op.update \/ ~HasName(Destination, Source[k].name)],
                       Len(Source), 1)
  IN [j \in 1..Len(idx) |-> Source[idx[j]]]

\* C3: for each source label copyFrom/copyTo issues exactly one POST if its
\* name is absent from the destination snapshot, exactly one PATCH keyed by
\* its name if it is present and updateExisting is set, and no request if it
\* is present and updateExisting is not set; no other mutating request is made
C3_Classification ==
  IsCopy =>
    /\ \A i \in 1..Len(reqs) :
         reqs[i].method # "GET" => BatchIssued /\ reqs[i].slot \in 1..Len(Source)
    /\ BatchIssued =>
         \A k \in 1..Len(Source) :
           LET l == Source[k]
               rs == SlotRequests(k)
           IN IF ~HasName(Destination, l.name)
              THEN \E i \in rs : /\ rs = {i}
                                 /\ reqs[i].method = "POST"
                                 /\ reqs[i].path = Path(TargetRepo(op), "labels", NoName, FALSE, 0, 0)
                                 /\ reqs[i].body = l
              ELSE IF op.update
                   THEN \E i \in rs : /\ rs = {i}
                                      /\ i \in RequestsFor("PATCH", TargetRepo(op), l.name)
                                      /\ reqs[i].body = l
                   ELSE rs = {}

C3_Witness ==
  /\ IsCopy /\ pc = "done" /\ op.update
  /\ HasName(Destination, NameB) /\ ~HasName(Destination, NameUpperB)
  /\ \E i \in 1..Len(reqs) : /\ reqs[i].method = "POST" /\ reqs[i].st = "ok"
                             /\ reqs[i].body.name = NameUpperB
  /\ \E i \in RequestsFor("PATCH", TargetRepo(op), NameB) : reqs[i].st = "ok"

\* C4: with disjoint names and updateExisting not set, copyFrom returns the
\* source labels when every request has succeeded, and the original labels
\* of the destination stay as they were: no PATCH or DELETE names one of them
C4_DisjointCopy ==
  (IsCopy /\ ~op.update /\ Names(Source) \cap Names(Destination) = {}) =>
    /\ pc = "done" => outcome = Resolved(Source)
    /\ \A j \in 1..Len(Destination) :
         /\ Destination[j] \in Range(store[TargetRepo(op)])
         /\ RequestsFor("PATCH", TargetRepo(op), Destination[j].name) = {}
         /\ RequestsFor("DELETE", TargetRepo(op), Destination[j].name) = {}

C4_Witness ==
  /\ IsCopy /\ ~op.update /\ pc = "done"
  /\ Names(Source) \cap Names(Destination) = {}
  /\ Len(Source) = 2 /\ Len(Destination) = 1
  /\ Len(store[TargetRepo(op)]) = 3

\* C5: with updateExisting set, a source label whose name N the destination
\* has gets a PATCH whose path is keyed by N and whose body is the source
\* label, and after a successful run the destination's label N is a source
\* label named N (its color and description)
C5_UpdateEffect ==
  (IsCopy /\ op.update) =>
    /\ BatchIssued =>
         \A k \in 1..Len(Source) :
           HasName(Destination, Source[k].name) =>
             \E i \in RequestsFor("PATCH", TargetRepo(op), Source[k].name) :
               reqs[i].slot = k /\ reqs[i].body = Source[k]
    /\ pc = "done" =>
         \A n \in Names(Source) \cap Names(Destination) :
           \E k \in 1..Len(Source) :
             Source[k].name = n /\ Source[k] \in Range(store[TargetRepo(op)])

C5_Witness ==
  /\ IsCopy /\ op.update /\ pc = "done"
  /\ Label(NamePercent, OldColor, OldDescription) \in Range(Destination)
  /\ Label(NamePercent, "d73a4a", "new") \in Range(Source)
  /\ Label(NamePercent, "d73a4a", "new") \in Range(store[TargetRepo(op)])
  /\ \E i \in RequestsFor("PATCH", TargetRepo(op), NamePercent) : reqs[i].st = "ok"

\* C6: with updateExisting not set, a destination label whose name the source
\* has keeps its color and description, and the returned sequence has no
\* entry with that name
C6_SkipEffect ==
  (IsCopy /\ ~op.update) =>
    \A j \in 1..Len(Destination) :
      HasName(Source, Destination[j].name) =>
        /\ Destination[j] \in Range(store[TargetRepo(op)])
        /\ outcome.st = "resolved" =>
             \A v \in 1..Len(outcome.value) : outcome.value[v].name # Destination[j].name

C6_Witness ==
  /\ IsCopy /\ ~op.update /\ pc = "done"
  /\ Label(NameB, OldColor, OldDescription) \in Range(Destination)
  /\ Label(NameB, "d73a4a", "new") \in Range(Source)
  /\ Label(NameB, OldColor, OldDescription) \in Range(store[TargetRepo(op)])
  /\ Len(outcome.value) = 1

\* C7: when every request has succeeded copyFrom returns exactly the source
\* labels it created or updated, in source order, none for a skipped label;
\* with updateExisting set that is one entry per source label
C7_ResultContent ==
  (IsCopy /\ pc = "done") =>
    /\ outcome.st = "resolved"
    /\ outcome.value = ExpectedApplied
    /\ op.update => Len(outcome.value) = Len(Source)

C7_Witness ==
  /\ IsCopy /\ op.update /\ pc = "done"
  /\ Len(Source) = 2 /\ Len(Destination) = 1 /\ Len(outcome.value) = 2
  /\ Cardinality({i \in 1..Len(reqs) : reqs[i].method = "PATCH" /\ reqs[i].st = "ok"}) = 1
  /\ Cardinality({i \in 1..Len(reqs) : reqs[i].method = "POST" /\ reqs[i].st = "ok"}) = 1

\* C8: for source labels with distinct names, whatever the order in which
\* the concurrent requests are served and their responses arrive, a run in
\* which all succeed returns the same sequence and leaves the same label set
C8_OrderIndependence ==
  (IsCopy /\ DistinctNames(Source) /\ pc = "done") =>
    /\ outcome.value = ExpectedApplied
    /\ Range(store[TargetRepo(op)]) =
         {l \in Range(Destination) : ~(op.update /\ HasName(Source, l.name))}
           \cup Range(ExpectedApplied)

\* both labels are created, the second of the source before the first
C8_Witness ==
  /\ IsCopy /\ DistinctNames(Source) /\ pc = "done"
  /\ Len(Source) = 2 /\ Destination = <<>>
  /\ store[TargetRepo(op)] = <<Source[2], Source[1]>>

\* C9: when a create/update of copyFrom fails, every other one still runs to
\* completion (no request is left unanswered when the process ends), and
\* the invocation does not resolve when a request has failed
C9_FailureTolerance ==
  IsCopy =>
    /\ outcome.st = "resolved" => \A i \in 1..Len(reqs) : reqs[i].st = "ok"
    /\ (BatchIssued /\ pc = "exited") =>
         \A i \in 1..Len(reqs) : reqs[i].st \in {"ok", "failed"}

\* C10: createIn with a sequence of labels resolves with the created labels,
\* one per input label, when every POST has succeeded
C10_BatchCreate ==
  (/\ op.fn = "createIn" /\ op.kind = "array"
   /\ Len(op.list) >= 1 /\ Len(reqs) = Len(op.list)
   /\ \A i \in 1..Len(reqs) : reqs[i].method = "POST" /\ reqs[i].st = "ok") =>
    outcome = Resolved(op.list)

\* the labels the hosting API created for the requests of the invocation
\* that succeeded, in the order of the calls
CreatedLabels ==
  LET idx == SelectIdx([i \in 1..Len(reqs) |-> reqs[i].st = "ok"], Len(reqs), 1)
  IN [j \in 1..Len(idx) |-> reqs[idx[j]].body]

\* C11: a batch of n create calls of which k >= 1 fail attempts all n,
\* reports failure overall, and the reported failure carries the n - k
\* created labels and the failure of one of the failed requests as its cause
C11_ErrorAggregation ==
  (/\ op.fn = "createIn" /\ op.kind = "array" /\ pc # "start"
   /\ \A i \in 1..Len(reqs) : reqs[i].st \in {"ok", "failed"}
   /\ \E i \in 1..Len(reqs) : reqs[i].st = "failed") =>
    /\ Len(reqs) = Len(op.list)
    /\ outcome.st = "rejected"
    /\ outcome.value = CreatedLabels
    /\ outcome.error.req \in {i \in 1..Len(reqs) : reqs[i].st = "failed"}

\* ------------------------------------------- getFrom, getUsedLabels
AllNames == CopyNames \cup DeleteNames

\* the label lists an issue of the listed repository carries
UsedLists == {<<>>, <<NameB>>, <<NameQuote>>, <<NameB, NameQuote>>}

\* getFrom(repo), getFrom(repo, labelName), getUsedLabels(repo)
ListInvocations ==
  {Invocation("getFrom", "direct", CurRepo, "none", <<>>, FALSE, <<>>, NoName)}
  \cup {Invocation("getFrom", "direct", CurRepo, "string", <<>>, FALSE, <<>>, n) :
     n \in {NameB, NameSpace}}
  \cup {Invocation("getUsedLabels", "direct", CurRepo, "none", <<>>, FALSE, <<>>, NoName)}

InitList ==
  /\ tool = NoTool
  /\ op \in ListInvocations
  /\ IF op.fn = "getFrom"
     THEN /\ \E ls \in SeqsUpTo({Label(n, OldColor, OldDescription) : n \in AllNames},
                                MaxRecords) :
               /\ Ordered(ls)
               /\ op.labelName # NoName => Len(ls) <= 1
               /\ store = [r \in Repos |-> IF r = op.repo THEN ls ELSE <<>>]
          /\ issues = [r \in Repos |-> <<>>]
     ELSE /\ store = [r \in Repos |-> <<>>]
          /\ \E iss \in SeqsUpTo({Issue(st, ns) : st \in {"open", "closed"},
                                                  ns \in UsedLists}, MaxRecords) :
               issues = [r \in Repos |-> IF r = op.repo THEN iss ELSE <<>>]
  /\ InitClient

NextList ==
  \/ Start
  \/ \E i \in 1..Len(reqs) : Serve(i)
  \/ \E i \in 1..Len(reqs) : Refuse(i)
  \/ \E i \in 1..Len(reqs) : NetError(i)
  \/ \E i \in 1..Len(reqs) : DeliverPage(i)
  \/ \E i \in 1..Len(reqs) : DeliverSingle(i)

SpecList == InitList /\ [][NextList]_vars

\* a listing call: get/getFrom without a name, getUsedLabels
IsListing == op.fn = "getUsedLabels" \/ (op.fn = "getFrom" /\ op.labelName = NoName)

\* the records of the listing on the hosting API, in server order
Records == IF op.fn = "getFrom" THEN store[op.repo] ELSE issues[op.repo]

\* the number of pages the records come in
PageCount == IF Records = <<>> THEN 1 ELSE (Len(Records) + PerPage - 1) \div PerPage

\* C12: for a listing of k pages linked by rel="next", getWithPaging issues
\* exactly k GET requests, for the pages 1..k in that order, and returns the
\* records of all pages in server order; it makes no request after the
\* response without a next relation
C12_PaginationResult ==
  IsListing =>
    /\ Len(reqs) <= PageCount
    /\ \A j \in 1..Len(reqs) :
         /\ reqs[j].method = "GET"
         /\ PageOf(reqs[j].path) = j
         /\ reqs[j].path.perPage = PerPage
    /\ pc = "done" =>
         /\ Len(reqs) = PageCount
         /\ outcome.st = "resolved"
         /\ op.fn = "getFrom" => outcome.value = Records

C12_Witness ==
  /\ op.fn = "getFrom" /\ op.labelName = NoName /\ pc = "done"
  /\ Len(reqs) >= 2 /\ Len(reqs) = PageCount
  /\ Len(outcome.value) = MaxRecords

\* C13: when the fetch of a page fails, the first, a middle or the last one,
\* the listing call fails, makes no further request, and its caller gets no
\* record of the pages fetched before
C13_AllOrNothing ==
  IsListing =>
    /\ outcome.st = "resolved" => \A i \in 1..Len(reqs) : reqs[i].st = "ok"
    /\ \A i \in 1..Len(reqs) :
         reqs[i].st = "failed" =>
           /\ i = Len(reqs)
           /\ pc = "failed"
           /\ outcome = Rejected("request", i)
           /\ outcome.value = <<>>

C13_Witness ==
  /\ IsListing /\ Len(reqs) >= 2 /\ Len(reqs) <= PageCount
  /\ reqs[1].st = "ok" /\ reqs[Len(reqs)].st = "failed"
  /\ outcome.st = "rejected"

\* C14: within one listing the request of a page is issued only after the
\* response for the page before it has been received completely, and at
\* most one page request is outstanding at any time
C14_SequentialPaging ==
  IsListing =>
    /\ \A i \in 1..(Len(reqs) - 1) : reqs[i].st = "ok"
    /\ Cardinality({i \in 1..Len(reqs) : reqs[i].st \in {"sent", "served"}}) <= 1

C14_Witness ==
  /\ IsListing /\ Len(reqs) >= 2
  /\ reqs[1].st = "ok" /\ reqs[2].st = "sent"

\* C15: updateIn identifies the label by labelName if it is given and by
\* label.name otherwise, its one request being the PATCH of that name with
\* the label as body; if neither is present it fails with an error and
\* makes no request
C15_UpdateKey ==
  (op.fn = "updateIn" /\ pc # "start") =>
    LET key == IF op.labelName # NoName THEN op.labelName ELSE op.list[1].name
    IN IF key = NoName
       THEN reqs = <<>> /\ pc = "failed" /\ outcome = Rejected("Error", 0)
       ELSE /\ Len(reqs) = 1
            /\ RequestsFor("PATCH", op.repo, key) = {1}
            /\ reqs[1].body = op.list[1]

\* labelName names the label of the repository, label.name its new name
C15_Witness ==
  /\ op.fn = "updateIn" /\ pc = "done"
  /\ op.labelName = NameB /\ op.list[1].name = NameUpperB
  /\ HasName(before[op.repo], NameB) /\ ~HasName(before[op.repo], NameUpperB)
  /\ HasName(store[op.repo], NameUpperB) /\ ~HasName(store[op.repo], NameB)
  /\ outcome = Resolved(op.list)

\* --------------------------------------------- deleteIn called again
\* the calls of deleteIn made so far: each lists the issues once
Calls == Cardinality({i \in 1..Len(reqs) : reqs[i].path.res = "issues"
                                            /\ PageOf(reqs[i].path) = 1})

\* deleteIn(repo, name) has resolved and is called again with the same name
CallAgain ==
  /\ op.fn = "deleteIn" /\ op.kind = "string"
  /\ pc = "done"
  /\ Calls < MaxCalls
  /\ pc' = "start"
  /\ outcome' = Pending
  /\ acc' = <<>>
  /\ labelName' = <<>>
  /\ usedLabels' = <<>>
  /\ slots' = <<>>
  /\ UNCHANGED <<store, issues, before, tool, reqs, op, labels, curLabels>>

InitDeleteTwice == InitDelete /\ op.kind = "string"

NextDeleteTwice ==
  \/ Start
  \/ \E i \in 1..Len(reqs) : Serve(i)
  \/ \E i \in 1..Len(reqs) : Refuse(i)
  \/ \E i \in 1..Len(reqs) : NetError(i)
  \/ \E i \in 1..Len(reqs) : DeliverPage(i)
  \/ \E i \in 1..Len(reqs) : DeliverBatch(i)
  \/ CallAgain

SpecDeleteTwice == InitDeleteTwice /\ [][NextDeleteTwice]_vars

\* C16: deleteIn of a named label that the repository does not have never
\* resolves, and of two successive deletes of the same label the second
\* fails when the first has succeeded
C16_DeleteNotIdempotent ==
  (op.fn = "deleteIn" /\ op.kind = "string") =>
    LET n == op.names[1]
        dels == RequestsFor("DELETE", op.repo, n)
    IN /\ ~HasName(before[op.repo], n) => outcome.st # "resolved"
       /\ \A i, j \in dels :
            (i < j /\ reqs[i].st = "ok") =>
              /\ reqs[j].st # "ok"
              /\ reqs[j].st = "failed" => pc = "failed" /\ outcome = Rejected("request", j)

\* the label was there and unused: the first call has deleted it and
\* resolved, the second call is answered 404 and rejected
C16_Witness ==
  /\ op.fn = "deleteIn" /\ op.kind = "string" /\ Calls = 2
  /\ HasName(before[op.repo], op.names[1]) /\ ~HasName(store[op.repo], op.names[1])
  /\ \E i, j \in RequestsFor("DELETE", op.repo, op.names[1]) :
       i < j /\ reqs[i].st = "ok" /\ reqs[j].st = "failed"
  /\ outcome.st = "rejected"

\* ------------------------------------------------------------- request
Methods == {"GET", "POST", "PATCH", "DELETE"}

\* the status codes the hosting API or a proxy before it may answer with
StatusCodes == {200, 201, 204, 403, 404}

\* this[request](this[getPath](repo, labelName), method, JSON.stringify(label))
RequestInvocations ==
  {Invocation("request", "direct", CurRepo, "object", <<Label(b, "d73a4a", "new")>>,
              FALSE, <<>>, n) @@ [method |-> m] :
     m \in Methods, n \in {NoName, NameB}, b \in {NameB, NameUpperB}}

InitRequest ==
  /\ tool = NoTool
  /\ op \in RequestInvocations
  /\ \E ls \in RepoLabelLists({NameB, NameUpperB}, {OldColor}, {OldDescription}) :
       store = [r \in Repos |-> IF r = op.repo THEN ls ELSE <<>>]
  /\ issues = [r \in Repos |-> <<>>]
  /\ InitClient

\* request i is answered with a status code, whatever the method was
Respond(i, code) ==
  /\ reqs[i].st = "sent"
  /\ reqs' = [reqs EXCEPT ![i] = [@ EXCEPT !.st = "served", !.code = code]]
  /\ UNCHANGED <<store, issues, before, tool, op, pc, acc, labels, labelName, curLabels, usedLabels, slots, outcome>>

\* the promise request returned is settled: by the 'end' handler of the
\* response, or by the 'error' handler of the request (code 0)
DeliverRequest(i) ==
  /\ pc = "request"
  /\ reqs[i].st = "served"
  /\ IF Succeeds(reqs[i].method, reqs[i].code)
     THEN /\ reqs' = [reqs EXCEPT ![i] = [@ EXCEPT !.st = "ok"]]
          /\ outcome' = Resolved(reqs[i].data)
          /\ pc' = "done"
     ELSE /\ reqs' = [reqs EXCEPT ![i] = [@ EXCEPT !.st = "failed"]]
          /\ outcome' = Rejected("request", i)
          /\ pc' = RejectedPc
  /\ UNCHANGED <<store, issues, before, tool, op, acc, labels, labelName, curLabels, usedLabels, slots>>

NextRequest ==
  \/ Start
  \/ \E i \in 1..Len(reqs) : Serve(i)
  \/ \E i \in 1..Len(reqs) : \E code \in StatusCodes : Respond(i, code)
  \/ \E i \in 1..Len(reqs) : NetError(i)
  \/ \E i \in 1..Len(reqs) : DeliverRequest(i)

SpecRequest == InitRequest /\ [][NextRequest]_vars

\* the settled requests: st is how the promise was settled, code the status
\* of the response (0: socket error)
Settled == {i \in 1..Len(reqs) : reqs[i].st \in {"ok", "failed"}}

C17_Table ==
  \A i \in 1..Len(reqs) :
    /\ i \in Settled =>
         /\ reqs[i].st = "ok" <=>
              \/ reqs[i].method \in {"GET", "PATCH"} /\ reqs[i].code = 200
              \/ reqs[i].method = "POST" /\ reqs[i].code = 201
              \/ reqs[i].method = "DELETE" /\ reqs[i].code = 204
         /\ reqs[i].st = "ok" <=> outcome.st = "resolved"
         /\ reqs[i].st = "failed" <=> outcome = Rejected("request", i)
    /\ i \notin Settled => outcome = Pending

C17_Once ==
  /\ \A i \in Settled : reqs'[i] = reqs[i]
  /\ outcome # Pending => outcome' = outcome

\* C17: request resolves if and only if the method is GET or PATCH and the
\* status 200, or POST and 201, or DELETE and 204; every other status and
\* every socket error rejects it; a settled request is never settled again
C17_TransportClassification == [](op.fn = "request" => C17_Table) /\ [][C17_Once]_vars

\* a POST answered 200 has been rejected
C17_Witness ==
  /\ op.fn = "request" /\ op.method = "POST"
  /\ Len(reqs) = 1 /\ reqs[1].st = "failed" /\ reqs[1].code = 200
  /\ outcome = Rejected("request", 1)

\* the names attached to the issues of the listed repository, in the order
\* getUsedLabels goes through them
AttachedSeq == Flatten([k \in 1..Len(issues[op.repo]) |-> issues[op.repo][k].labels])

\* where the name that key stands for is seen first
FirstSeen(key) ==
  CHOOSE x \in 1..Len(AttachedSeq) :
    /\ UsedKey(AttachedSeq[x]) = key
    /\ \A y \in 1..(x - 1) : UsedKey(AttachedSeq[y]) # key

\* C18: the mapping getUsedLabels returns has one key, the escaped name, for
\* every label attached to an issue of the repository, open or closed, and
\* no other key; each entry was made when its label was first seen and holds
\* the URL constructed then
C18_UsageIndex ==
  (op.fn = "getUsedLabels" /\ outcome.st = "resolved") =>
    LET m == outcome.value
    IN /\ {m[j].key : j \in 1..Len(m)} = {UsedKey(n) : n \in AttachedNames(op.repo)}
       /\ \A j, k \in 1..Len(m) :
            /\ m[j].key = m[k].key => j = k
            /\ j < k => FirstSeen(m[j].key) < FirstSeen(m[k].key)
       /\ \A j \in 1..Len(m) :
            m[j].url = [repo |-> op.repo, q |-> <<"label%3A", m[j].key>>]

\* a label attached to two issues and another one attached to a closed issue
C18_Witness ==
  /\ op.fn = "getUsedLabels" /\ outcome.st = "resolved"
  /\ Len(outcome.value) = 2
  /\ \E i, j \in 1..Len(issues[op.repo]) :
       i < j /\ Range(issues[op.repo][i].labels) \cap Range(issues[op.repo][j].labels) # {}
  /\ \E i \in 1..Len(issues[op.repo]) :
       /\ issues[op.repo][i].state = "closed"
       /\ \E n \in Range(issues[op.repo][i].labels) :
            \A j \in 1..Len(issues[op.repo]) :
              issues[op.repo][j].state = "open" => n \notin Range(issues[op.repo][j].labels)

\* ------------------------------------------------- runs of copy-labels
\* the labels a dump file or the source repository holds, and the labels
\* the destination repository holds
FullSource == <<Label(NameB, "d73a4a", "new"), Label(NamePercent, "d73a4a", "new"),
                Label(NameUpperB, "d73a4a", "new")>>

FullDestination == <<Label(NameB, OldColor, OldDescription),
                     Label(NameSpace, OldColor, OldDescription),
                     Label(NamePercent, OldColor, OldDescription)>>

Prefixes(s, n) == {SubSeq(s, 1, k) : k \in 0..Min(n, Len(s))}

\* copy-labels [--delete] [--update] [--dry-run] SOURCE DEST, each of SOURCE
\* and DEST a repository or a .json file
ToolRuns ==
  {ToolArgs(dry, del, update, srcFile, dstFile, file) :
     dry \in BOOLEAN, del \in BOOLEAN, update \in BOOLEAN,
     srcFile \in BOOLEAN, dstFile \in BOOLEAN, file \in Prefixes(FullSource, MaxSource)}

InitTool ==
  /\ tool \in {t \in ToolRuns : ~t.srcFile => t.file = <<>>}
  /\ \E dst \in IF tool.dstFile THEN {<<>>} ELSE Prefixes(FullDestination, MaxLabels) :
       \E src \in IF tool.srcFile THEN {<<>>} ELSE Prefixes(FullSource, MaxLabels) :
         store = [r \in Repos |-> IF r = CurRepo THEN dst ELSE src]
  /\ \E iss \in IF tool.del /\ ~tool.dstFile
                 THEN SeqsUpTo({Issue("open", <<NameB>>), Issue("closed", <<>>)}, MaxIssues)
                 ELSE {<<>>} :
       issues = [r \in Repos |-> IF r = CurRepo THEN iss ELSE <<>>]
  /\ before = store
  /\ reqs = <<>>
  /\ op = HandlerCall("none", CurRepo, "none", <<>>, FALSE)
  /\ pc = "idle"
  /\ acc = <<>>
  /\ labels = <<>>
  /\ labelName = <<>>
  /\ curLabels = {}
  /\ usedLabels = <<>>
  /\ slots = <<>>
  /\ outcome = Pending

NextTool ==
  \/ ToolCopy
  \/ Start
  \/ \E i \in 1..Len(reqs) : Serve(i)
  \/ \E i \in 1..Len(reqs) : Refuse(i)
  \/ \E i \in 1..Len(reqs) : NetError(i)
  \/ \E i \in 1..Len(reqs) : DeliverPage(i)
  \/ \E i \in 1..Len(reqs) : DeliverBatch(i)

SpecTool == InitTool /\ [][NextTool]_vars

\* C19: in a run of the tool with --dry-run, whatever the other options, the
\* kinds of source and destination and the errors of the fetches, no POST,
\* PATCH or DELETE request is made, no repository changes and no dump file
\* is written
C19_DryRunNeverMutates ==
  tool.dry =>
    /\ \A i \in 1..Len(reqs) : reqs[i].method = "GET"
    /\ store = before
    /\ tool.dump = NoDump

\* a dry run with --delete and --update has finished; without --dry-run it
\* would have deleted a label, updated one and created one
C19_Witness ==
  /\ tool.dry /\ tool.del /\ tool.update /\ ~tool.dstFile
  /\ tool.phase = "end" /\ pc = "finished"
  /\ Len(tool.labels) = 2
  /\ Names(store[CurRepo]) = {NameB, NameSpace}
  /\ issues[CurRepo] = <<>>
  /\ \A i \in 1..Len(reqs) : reqs[i].st = "ok"

\* C20: when a LabelHandler operation the tool uses reports an error the
\* process exits by helpExit, with code 1, and the tool finishes normally
\* only if every request has succeeded; when the pre-delete step fails no
\* create or update request is made
C20_ExitOnError ==
  tool.phase # "none" =>
    /\ (outcome.st = "rejected" \/ \E i \in 1..Len(reqs) : reqs[i].st = "failed") =>
         pc = "exited"
    /\ pc = "finished" => \A i \in 1..Len(reqs) : reqs[i].st = "ok"
    /\ tool.phase \in {"dryDelete", "dryUsed", "delete"} =>
         \A i \in 1..Len(reqs) : reqs[i].method \notin {"POST", "PATCH"}

\* the DELETE of the pre-delete step has failed and the process has exited
\* before copying the labels of the dump
C20_Witness ==
  /\ tool.phase = "delete" /\ pc = "exited" /\ ~tool.dry
  /\ tool.srcFile /\ Len(tool.file) >= 1
  /\ \E i \in 1..Len(reqs) : reqs[i].method = "DELETE" /\ reqs[i].st = "failed"
  /\ \A i \in 1..Len(reqs) : reqs[i].method \in {"GET", "DELETE"}

\* the names of the destination labels the pre-delete step has deleted
DeletedNames ==
  {n \in Names(before[CurRepo]) :
     \E i \in RequestsFor("DELETE", CurRepo, n) : reqs[i].st = "ok"}

\* the tool has come to the Promise.all of copyFrom
CopyIssued ==
  \/ tool.phase = "copy" /\ pc \in {"batch", "done"}
  \/ tool.phase = "end" /\ pc = "finished" /\ ~tool.dry /\ ~tool.dstFile

\* C21: in a run with --delete the tool goes on to copyFrom, whose first
\* step fetches the destination snapshot, only when every DELETE of the
\* pre-delete step has completed, and a label that step has deleted and the
\* source names is created again (one POST, no PATCH)
C21_SnapshotAfterDeletion ==
  (tool.phase # "none" /\ tool.del) =>
    /\ (tool.phase \in {"getLabels", "copy", "end"} /\ pc # "exited") =>
         \A i \in 1..Len(reqs) : reqs[i].method = "DELETE" => reqs[i].st = "ok"
    /\ CopyIssued =>
         \A k \in 1..Len(op.list) :
           op.list[k].name \in DeletedNames =>
             /\ \E i \in 1..Len(reqs) : /\ reqs[i].method = "POST"
                                        /\ reqs[i].slot = k
                                        /\ reqs[i].body = op.list[k]
             /\ RequestsFor("PATCH", CurRepo, op.list[k].name) = {}

\* label b was in the destination and unused: it has been deleted, then
\* created from the source although --update was given
C21_Witness ==
  /\ tool.del /\ tool.update /\ ~tool.dry /\ tool.phase = "end" /\ pc = "finished"
  /\ NameB \in DeletedNames
  /\ Cardinality(DeletedNames) = 2
  /\ Label(NameB, "d73a4a", "new") \in Range(store[CurRepo])
  /\ \E i \in 1..Len(reqs) : reqs[i].method = "POST" /\ reqs[i].body.name = NameB

\* the usage index of the destination: the keys of the labels attached to
\* its issues, in the order the issues name them
ProtectedIndex ==
  UsedLabelsOf(CurRepo, Flatten([i \in 1..Len(issues[CurRepo]) |-> issues[CurRepo][i].labels]), <<>>)

\* the delete step of the tool has resolved: handler.delete() in a real
\* run, dryDelete in a dry run
DeleteStepDone == tool.phase \in {"delete", "dryUsed"} /\ pc = "done"

TargetName(r) == IF r.method = "POST" THEN r.body.name ELSE DecodePath(r.path.name)

\* the mutating requests that have been made and not yet been delivered
Outstanding ==
  {i \in 1..Len(reqs) : /\ reqs[i].method \in {"POST", "PATCH", "DELETE"}
                        /\ reqs[i].st \in {"sent", "served"}}

\* C23: within one invocation of copyFrom, copyTo or deleteIn no two
\* mutating requests that are outstanding at the same time target the same
\* label name
C23_DistinctTargets ==
  op.fn \in {"copyFrom", "copyTo", "deleteIn"} =>
    \A i, j \in Outstanding : i # j => TargetName(reqs[i]) # TargetName(reqs[j])

\* ---------------------------------------------- copyFrom called again
\* the first requests of the runs of copyFrom made so far: each run lists
\* the destination once, from its first page
RunStarts ==
  {i \in 1..Len(reqs) : /\ reqs[i].method = "GET"
                        /\ reqs[i].path.repo = TargetRepo(op)
                        /\ reqs[i].path.res = "labels"
                        /\ reqs[i].path.name = NoName
                        /\ PageOf(reqs[i].path) = 1}

CopyRuns == Cardinality(RunStarts)

\* the requests of the run that is under way
ThisRun == {i \in 1..Len(reqs) : \A j \in RunStarts : j <= i}

\* copyFrom(labels, true) has resolved and is called again with the same
\* labels; nothing else writes to the destination in between (before
\* keeps the destination as it is when the run starts)
CopyAgain ==
  /\ op.fn = "copyFrom"
  /\ pc = "done"
  /\ CopyRuns < MaxCalls
  /\ pc' = "start"
  /\ outcome' = Pending
  /\ before' = store
  /\ acc' = <<>>
  /\ labels' = <<>>
  /\ curLabels' = {}
  /\ slots' = <<>>
  /\ UNCHANGED <<store, issues, tool, reqs, op, labelName, usedLabels>>

\* copyFrom(labels, true) with an array of labels of distinct names
CopyAgainInvocations ==
  {Invocation("copyFrom", "direct", OtherRepo, "array", ls, TRUE, <<>>, NoName) :
     ls \in {l \in SeqsUpTo(DumpLabels, MaxSource) : l # <<>> /\ DistinctNames(l)}}

InitCopyAgain ==
  /\ tool = NoTool
  /\ op \in CopyAgainInvocations
  /\ \E dst \in RepoLabelLists({NameB, NamePercent}, {OldColor}, {OldDescription}) :
       store = [r \in Repos |-> IF r = TargetRepo(op) THEN dst ELSE <<>>]
  /\ issues = [r \in Repos |-> <<>>]
  /\ InitClient

NextCopyAgain ==
  \/ Start
  \/ \E i \in 1..Len(reqs) : Serve(i)
  \/ \E i \in 1..Len(reqs) : Refuse(i)
  \/ \E i \in 1..Len(reqs) : NetError(i)
  \/ \E i \in 1..Len(reqs) : DeliverPage(i)
  \/ \E i \in 1..Len(reqs) : DeliverBatch(i)
  \/ CopyAgain

SpecCopyAgain == InitCopyAgain /\ [][NextCopyAgain]_vars

\* every source label is in the destination with its color and description
\* when the run starts
SourceInDestination == \A k \in 1..Len(op.list) : op.list[k] \in Range(before[TargetRepo(op)])

\* C24: of repeated runs of copyFrom(labels, true) the second and later
\* ones create nothing, and a later run that starts with every source label
\* equal in the destination issues no POST or PATCH and returns an empty
\* sequence
C24_Convergence ==
  (op.fn = "copyFrom" /\ op.update /\ CopyRuns >= 2) =>
    /\ \A i \in ThisRun : reqs[i].method # "POST"
    /\ SourceInDestination =>
         /\ \A i \in ThisRun : reqs[i].method \notin {"POST", "PATCH"}
         /\ pc = "done" => outcome = Resolved(<<>>)

\* ------------------------------------ a dry run, then the run for real
\* the dry run has finished and the tool is run again with the same
\* arguments without --dry-run; nothing has changed in between (a dry run
\* changes nothing), and the report of the dry run is kept to compare
ToolAgain ==
  /\ tool.dry /\ tool.phase = "end" /\ pc = "finished"
  /\ tool' = [tool EXCEPT !.phase = "init", !.dry = FALSE, !.labels = <<>>,
                          !.used = <<>>, !.listed = <<>>]
  /\ pc' = "idle"
  /\ op' = HandlerCall("none", CurRepo, "none", <<>>, FALSE)
  /\ outcome' = Pending
  /\ acc' = <<>>
  /\ labels' = <<>>
  /\ labelName' = <<>>
  /\ curLabels' = {}
  /\ usedLabels' = <<>>
  /\ slots' = <<>>
  /\ UNCHANGED <<store, issues, before, reqs>>

InitDryReal == InitTool /\ tool.dry /\ ~tool.dstFile

NextDryReal ==
  \/ NextTool
  \/ ToolAgain

SpecDryReal == InitDryReal /\ [][NextDryReal]_vars

\* the requests with the given method, in the order they were made
RequestsWith(method) ==
  LET idx == SelectIdx([i \in 1..Len(reqs) |-> reqs[i].method = method], Len(reqs), 1)
  IN [k \in 1..Len(idx) |-> reqs[idx[k]]]

\* the run for real that follows the dry run has finished
RealRunFinished == ~tool.dry /\ tool.phase = "end" /\ pc = "finished"

\* C25: the labels a dry run reports as to be deleted, to be added and to be
\* updated are the labels that the run for real with the same arguments on
\* the same repositories deletes, creates and updates, in the same order
C25_DryMatchesReal ==
  (tool.phase # "none" /\ RealRunFinished) =>
    LET dels == RequestsWith("DELETE")
        posts == RequestsWith("POST")
        patches == RequestsWith("PATCH")
    IN /\ [k \in 1..Len(dels) |-> DecodePath(dels[k].path.name)]
            = [k \in 1..Len(tool.report.deleted) |-> tool.report.deleted[k].name]
       /\ [k \in 1..Len(posts) |-> posts[k].body] = tool.report.added
       /\ [k \in 1..Len(patches) |-> patches[k].body] = tool.report.updated
       /\ \A i \in 1..Len(reqs) : reqs[i].st = "ok"

\* --delete --update: the dry run has reported one label to delete, one to
\* add and one to update, and the run for real has made these requests
C25_Witness ==
  /\ RealRunFinished /\ tool.del /\ tool.update
  /\ tool.report.deleted # <<>> /\ tool.report.added # <<>> /\ tool.report.updated # <<>>
  /\ RequestsWith("DELETE") # <<>> /\ RequestsWith("POST") # <<>>
  /\ RequestsWith("PATCH") # <<>>

\* ------------------------------------------------------- termination
\* copyFrom and copyTo with a repository to read or with an array, and
\* deleteIn of all labels or of an array of names, each on the repositories
\* of the runs of copy-labels
LiveInvocations ==
  {Invocation(fn, "direct", OtherRepo, "repo", <<>>, u, <<>>, NoName) :
     fn \in {"copyFrom", "copyTo"}, u \in BOOLEAN}
  \cup {Invocation(fn, "direct", OtherRepo, "array", ls, u, <<>>, NoName) :
     fn \in {"copyFrom", "copyTo"}, u \in BOOLEAN, ls \in Prefixes(FullSource, MaxSource)}
  \cup {Invocation("deleteIn", "direct", CurRepo, "none", <<>>, FALSE, <<>>, NoName)}
  \cup {Invocation("deleteIn", "direct", CurRepo, "array", <<>>, FALSE, ns, NoName) :
     ns \in Prefixes(<<NameSpace, NameB>>, MaxSource)}

InitLive ==
  /\ tool = NoTool
  /\ op \in LiveInvocations
  /\ \E dst \in Prefixes(FullDestination, MaxLabels) :
       \E src \in IF op.kind = "repo" THEN Prefixes(FullSource, MaxLabels) ELSE {<<>>} :
         store = [r \in Repos |->
                    IF op.fn = "deleteIn"
                    THEN (IF r = op.repo THEN dst ELSE <<>>)
                    ELSE (IF r = TargetRepo(op) THEN dst ELSE src)]
  /\ \E iss \in IF op.fn = "deleteIn"
                 THEN SeqsUpTo({Issue("open", <<NameB>>), Issue("closed", <<>>)}, MaxIssues)
                 ELSE {<<>>} :
       issues = [r \in Repos |-> IF r = CurRepo THEN iss ELSE <<>>]
  /\ InitClient

\* no request stays unanswered forever (the hosting API answers it or the
\* connection reports an error) and the event loop runs every callback
\* that is ready: a step that can be taken is taken in the end
SpecLive == InitLive /\ [][Next]_vars /\ WF_vars(Next)

\* C26: every invocation of copyFrom, copyTo and deleteIn eventually
\* resolves or rejects, when every request eventually yields a response or
\* an error and every listing has finitely many pages
C26_Termination == <>(outcome.st # "pending")

\* copyFrom of a repository has listed the source and the destination, page
\* by page, created a label and resolved
C26_Witness ==
  /\ op.fn = "copyFrom" /\ op.kind = "repo" /\ tool = NoTool
  /\ outcome.st = "resolved" /\ Len(outcome.value) >= 1
  /\ Len(reqs) >= 4
  /\ \A i \in 1..Len(reqs) : reqs[i].st = "ok"

\* ===================================================== update-authors
\* The tool reads the output of git log line by line, collects the authors
\* and co-authors in a Set, maps each through git check-mailmap and prints
\* the result or writes it to a file.  Variable tool holds its state, the
\* variables of the LabelHandler stay as they are.
labelVars == <<store, issues, before, reqs, op, pc, acc, labels, labelName,
               curLabels, usedLabels, slots, outcome>>

\* no LabelHandler is in use
InitIdle ==
  /\ store = [r \in Repos |-> <<>>]
  /\ issues = [r \in Repos |-> <<>>]
  /\ before = store
  /\ reqs = <<>>
  /\ op = HandlerCall("none", CurRepo, "none", <<>>, FALSE)
  /\ pc = "idle"
  /\ acc = <<>>
  /\ labels = <<>>
  /\ labelName = <<>>
  /\ curLabels = {}
  /\ usedLabels = <<>>
  /\ slots = <<>>
  /\ outcome = Pending

authorMarker == "AUTHOR: "
coauthorMarker == "Co-authored-by: "

\* a text is a sequence of pieces: names, blanks " " and the piece "[bot]"
Ann == <<"Ann <ann@x.org>">>
Anna == <<"Anna <anna@x.org>">>
AnnSpaced == <<"Ann <ann@x.org>", " ">>
Dep == <<"dep", "[bot]", " <dep@x.org>">>
Ci == <<"ci <ci@x.org>">>
CiBot == <<"ci", "[bot]", " <ci@x.org>">>
Blank == <<" ">>

\* the authors of commits and the texts of Co-authored-by trailers (<<>>:
\* the commit has no trailer)
CommitAuthors == {Ann, Anna, Dep}
Trailers == {<<>>, Ci, AnnSpaced, Blank}

\* .mailmap: none, one that maps the old address of Ann to the new one, one
\* that gives the CI account its canonical name
Mailmaps == {"none", "alias", "bot"}

\* git check-mailmap <contact>, and %aN <%aE> of git log
CheckMailmap(m, c) ==
  CASE m = "alias" /\ c = Anna -> Ann
    [] m = "bot" /\ c = Ci -> CiBot
    [] OTHER -> c

RECURSIVE trimStart(_)
trimStart(t) == IF t # <<>> /\ Head(t) = " " THEN trimStart(Tail(t)) ELSE t

RECURSIVE trimEnd(_)
trimEnd(t) ==
  IF t # <<>> /\ t[Len(t)] = " " THEN trimEnd(SubSeq(t, 1, Len(t) - 1)) ELSE t

\* line.trim()
trim(t) == trimEnd(trimStart(t))

\* line.includes('[bot]')
includesBot(t) == \E i \in 1..Len(t) : t[i] = "[bot]"

\* a line of the output of git log: what it starts with and the rest
Line(marker, text) == [marker |-> marker, text |-> text]

Commit(author, trailer) == [author |-> author, trailer |-> trailer]

\* git log --reverse --format='AUTHOR: %aN <%aE>\n%b' for one commit: the
\* author as the mailmap gives it, a line of the message body, the trailer
CommitLines(m, c) ==
  <<Line(authorMarker, CheckMailmap(m, c.author)), Line("", <<"body">>)>>
  \o (IF c.trailer = <<>> THEN <<>> ELSE <<Line(coauthorMarker, c.trailer)>>)

logLines(m, history) == Flatten([k \in 1..Len(history) |-> CommitLines(m, history[k])])

\* Set.prototype.add: the Set as the sequence of its elements in insertion
\* order
SetAdd(set, x) == IF x \in Range(set) THEN set ELSE Append(set, x)

\* the code git log exits with when it fails
GitLogCode == 128

\* process.exit has not been called
NoExit == 0 - 1

\* the state of a run of update-authors [--out[=path]]: how the child
\* process git log ends (gitLog: "ok" with code 0, "fails" with another
\* code after the lines it has printed, "error" when it cannot be
\* spawned), whether its 'close' event has been handled (closed), whether
\* the output file has been opened, which truncates it (opened), and the
\* code process.exit was called with (exit)
AuthorsRun(history, m, toFile, gitLog) ==
  [name |-> "update-authors", phase |-> "reading", history |-> history,
   mailmap |-> m, toFile |-> toFile, lines |-> logLines(m, history),
   authors |-> <<>>, mailmappedAuthors |-> <<>>, next |-> 1, output |-> <<>>,
   gitLog |-> gitLog, closed |-> FALSE, opened |-> FALSE, exit |-> NoExit]

\* linereader.on('line', ...)
OnLine ==
  /\ tool.phase = "reading" /\ tool.lines # <<>>
  /\ LET line == Head(tool.lines)
         text == trim(line.text)
     IN tool' = [tool EXCEPT
                   !.lines = Tail(tool.lines),
                   !.authors =
                      IF line.marker \notin {authorMarker, coauthorMarker} THEN @
                      ELSE IF text = <<>> \/ includesBot(text) THEN @
                      ELSE SetAdd(@, text)]
  /\ UNCHANGED labelVars

\* gitLog.on('error'): process.exit(1)
GitLogFails ==
  /\ tool.phase = "reading" /\ tool.gitLog = "error"
  /\ tool' = [tool EXCEPT !.phase = "exited", !.exit = 1]
  /\ UNCHANGED labelVars

\* gitLog.once('close', code), after the output of git log has ended:
\* process.exit(code) when the code is not 0, wherever the handler of the
\* linereader's 'close' has got to
GitLogClose ==
  /\ tool.phase # "exited" /\ tool.gitLog # "error"
  /\ tool.lines = <<>> /\ ~tool.closed
  /\ tool' = IF tool.gitLog = "fails"
             THEN [tool EXCEPT !.closed = TRUE, !.phase = "exited", !.exit = GitLogCode]
             ELSE [tool EXCEPT !.closed = TRUE]
  /\ UNCHANGED labelVars

\* linereader.once('close'): mailmapAuthors() starts
OnClose ==
  /\ tool.phase = "reading" /\ tool.lines = <<>>
  /\ tool' = [tool EXCEPT !.phase = "mailmap", !.next = 1]
  /\ UNCHANGED labelVars

\* mailmapAuthors: one turn of the loop, await exec('git check-mailmap ...')
MailmapNext ==
  /\ tool.phase = "mailmap" /\ tool.next <= Len(tool.authors)
  /\ tool' = [tool EXCEPT
                !.mailmappedAuthors = SetAdd(@, trim(CheckMailmap(tool.mailmap, tool.authors[tool.next]))),
                !.next = @ + 1]
  /\ UNCHANGED labelVars

\* git check-mailmap fails: 'Failed to mailmap authors', process.exit(1)
MailmapFails ==
  /\ tool.phase = "mailmap" /\ tool.next <= Len(tool.authors)
  /\ tool' = [tool EXCEPT !.phase = "exited", !.exit = 1]
  /\ UNCHANGED labelVars

\* authors = mailmappedAuthors, then the names are printed or open is
\* called for the file
Mailmapped ==
  /\ tool.phase = "mailmap" /\ tool.next > Len(tool.authors)
  /\ tool' = IF tool.toFile
             THEN [tool EXCEPT !.authors = tool.mailmappedAuthors, !.phase = "opening", !.next = 1]
             ELSE [tool EXCEPT !.authors = tool.mailmappedAuthors, !.phase = "finished",
                               !.output = tool.mailmappedAuthors]
  /\ UNCHANGED labelVars

\* file = await open(outputPath, 'w+', 0o644): the file is there and empty
Open ==
  /\ tool.phase = "opening"
  /\ tool' = [tool EXCEPT !.phase = "writing", !.opened = TRUE, !.output = <<>>]
  /\ UNCHANGED labelVars

\* await write(file, author + '\n'), the next turn of the loop or its end
WriteNext ==
  /\ tool.phase = "writing"
  /\ tool' = IF tool.next <= Len(tool.authors)
             THEN [tool EXCEPT !.output = Append(@, tool.authors[tool.next]), !.next = @ + 1]
             ELSE [tool EXCEPT !.phase = "finished"]
  /\ UNCHANGED labelVars

\* open or write fails: 'Error writing to file', process.exit(1)
WriteFails ==
  /\ \/ tool.phase = "opening"
     \/ tool.phase = "writing" /\ tool.next <= Len(tool.authors)
  /\ tool' = [tool EXCEPT !.phase = "exited", !.exit = 1]
  /\ UNCHANGED labelVars

Histories == SeqsUpTo({Commit(a, t) : a \in CommitAuthors, t \in Trailers}, MaxCommits)

InitAuthors ==
  /\ tool \in {AuthorsRun(h, m, f, g) : h \in Histories, m \in Mailmaps, f \in BOOLEAN,
                                        g \in {"ok", "fails", "error"}}
  /\ InitIdle

NextAuthors ==
  \/ OnLine
  \/ GitLogFails
  \/ GitLogClose
  \/ OnClose
  \/ MailmapNext
  \/ MailmapFails
  \/ Mailmapped
  \/ Open
  \/ WriteNext
  \/ WriteFails

SpecAuthors == InitAuthors /\ [][NextAuthors]_vars

\* the contributions of the history in order: of each commit its author and
\* the co-author of its trailer, each as the mailmap gives it
Contributions ==
  Flatten([k \in 1..Len(tool.history) |->
    <<CheckMailmap(tool.mailmap, trim(tool.history[k].author))>>
    \o (IF tool.history[k].trailer = <<>> THEN <<>>
        ELSE <<CheckMailmap(tool.mailmap, trim(tool.history[k].trailer))>>)])

\* the position of the first contribution of c
FirstContribution(c) ==
  CHOOSE i \in 1..Len(Contributions) :
    /\ Contributions[i] = c
    /\ \A j \in 1..(i - 1) : Contributions[j] # c

\* C27: update-authors outputs every contributor, as the mailmap gives it,
\* once, in the order of the first contributions, but no entry that
\* contains '[bot]' and no empty entry
C27_ContributorList ==
  (tool.name = "update-authors" /\ tool.phase = "finished") =>
    LET out == tool.output
    IN /\ \A i, j \in 1..Len(out) : i # j => out[i] # out[j]
       /\ \A i \in 1..Len(out) : out[i] # <<>> /\ ~includesBot(out[i])
       /\ Range(out) = {c \in Range(Contributions) : c # <<>> /\ ~includesBot(c)}
       /\ \A i, j \in 1..Len(out) :
            i < j => FirstContribution(out[i]) < FirstContribution(out[j])

\* ================================================================ land
\* The landing tool starts git commands as child processes.  A command
\* that has been spawned runs at some later time, when it reads or changes
\* the repository in one step, and its callback (or the await on it) runs
\* later again.  What the script starts without awaiting runs concurrently.
Master == "master"
Stable == "stable"
Feature == "feature"
Branches == {Master, Stable, Feature}

\* a commit: its hash and, when the message has it, the PR-URL line
PlainCommit(h) == <<h>>
hasPrUrl(c) == Len(c) = 2

\* git commit --amend --message='... PR-URL: ...'
Amended(c) == <<c[1], "PR-URL">>

Reverse(q) == [k \in 1..Len(q) |-> q[Len(q) + 1 - k]]

\* a git command (or the https request of httpsGet) started by the block of
\* the script named flow; head is the branch checked out when it runs
Proc(cmd, count, commits, flow) ==
  [cmd |-> cmd, count |-> count, commits |-> commits, flow |-> flow,
   st |-> "spawned", err |-> FALSE, head |-> "", branch |-> ""]

\* land <landed-branch> with the options of flags (none or one of
\* --cherry-pick and --push), run with branch head checked out, the source
\* branch n commits ahead of master, the last of them with or without the
\* PR-URL line
LandRun(landed, flags, head, n, withUrl) ==
  [name |-> "land", phase |-> "init", landed |-> landed, flags |-> flags,
   source |-> head, head |-> head,
   branches |-> [b \in Branches |->
                   IF b = Feature
                   THEN <<PlainCommit(0)>> \o
                        [k \in 1..n |-> IF k = n /\ withUrl THEN Amended(PlainCommit(k))
                                        ELSE PlainCommit(k)]
                   ELSE <<PlainCommit(0)>>],
   procs |-> <<>>, pushed |-> <<>>]

\* the commits of branch b that are not on master: master..b
NotOnMaster(t, b) ==
  LET idx == SelectIdx([i \in 1..Len(t.branches[b]) |->
                          t.branches[b][i] \notin Range(t.branches[Master])],
                       Len(t.branches[b]), 1)
  IN [k \in 1..Len(idx) |-> t.branches[b][idx[k]]]

\* the script runs to its end: every block starts its first command
LandStart ==
  /\ tool.phase = "init"
  /\ LET gitLog == <<Proc("log -1", 0, <<>>, "pr-url")>>
         cherry == IF "--cherry-pick" \in tool.flags
                   THEN <<Proc("checkout", 0, <<>>, "--cherry-pick"),
                          Proc("rev-list", 0, <<>>, "--cherry-pick")>>
                   ELSE <<>>
         push == IF "--push" \in tool.flags
                 THEN <<Proc("rev-parse", 0, <<>>, "--push"),
                        Proc("push", 0, <<>>, "--push")>>
                 ELSE <<>>
     IN tool' = [tool EXCEPT !.phase = "running", !.procs = gitLog \o cherry \o push]
  /\ UNCHANGED labelVars

\* git cherry-pick of commits onto the branch checked out fails without a
\* commit to pick and when a commit is on the branch already
CherryPickFails(t, commits) ==
  commits = <<>> \/ \E k \in 1..Len(commits) : commits[k] \in Range(t.branches[t.head])

\* the spawned command i runs
GitRuns(i) ==
  /\ tool.phase = "running" /\ tool.procs[i].st = "spawned"
  /\ LET p == [tool.procs[i] EXCEPT !.st = "ran", !.head = tool.head]
         tip == tool.branches[tool.head][Len(tool.branches[tool.head])]
     IN tool' =
          CASE p.cmd = "checkout" ->
                 [tool EXCEPT !.head = tool.landed, !.procs[i] = p]
            [] p.cmd = "rev-list" ->
                 [tool EXCEPT !.procs[i] = [p EXCEPT !.count = Len(NotOnMaster(tool, tool.head))]]
            [] p.cmd = "log" ->
                 \* git log -n --pretty=format:%h: the last n commits, newest first
                 LET b == tool.branches[tool.head]
                     n == Min(p.count, Len(b))
                 IN [tool EXCEPT !.procs[i] =
                       [p EXCEPT !.commits = Reverse(SubSeq(b, Len(b) - n + 1, Len(b)))]]
            [] p.cmd = "cherry-pick" ->
                 IF CherryPickFails(tool, p.commits)
                 THEN [tool EXCEPT !.procs[i] = [p EXCEPT !.err = TRUE]]
                 ELSE [tool EXCEPT !.procs[i] = p,
                                   !.branches[tool.head] = @ \o p.commits]
            [] p.cmd = "rev-parse" ->
                 [tool EXCEPT !.procs[i] = [p EXCEPT !.branch = tool.head]]
            [] p.cmd = "push" ->
                 [tool EXCEPT !.procs[i] = [p EXCEPT !.branch = tool.head],
                              !.pushed = Append(@, tool.head)]
            [] p.cmd = "log -1" ->
                 [tool EXCEPT !.procs[i] = [p EXCEPT !.commits = <<tip>>]]
            [] p.cmd = "commit --amend" ->
                 [tool EXCEPT !.procs[i] = p,
                              !.branches[tool.head][Len(tool.branches[tool.head])] = Amended(tip)]
            [] OTHER -> [tool EXCEPT !.procs[i] = p]
  /\ UNCHANGED labelVars

\* the spawned command i fails (git exits with an error, the request
\* fails) without a change to the repository, and its callback ends the
\* process
GitFails(i) ==
  /\ tool.phase = "running" /\ tool.procs[i].st = "spawned"
  /\ tool' = [tool EXCEPT !.phase = "exited",
                          !.procs[i] = [@ EXCEPT !.st = "done", !.err = TRUE, !.head = tool.head]]
  /\ UNCHANGED labelVars

\* what the block of command i starts when the command has succeeded
Continue(t, p) ==
  CASE p.cmd = "rev-list" ->
         \* commitsList: git log -${await differCommits()}
         <<Proc("log", p.count, <<>>, p.flow)>>
    [] p.cmd = "log" ->
         \* git cherry-pick ${await commitsList()}
         <<Proc("cherry-pick", 0, Reverse(p.commits), p.flow)>>
    [] p.cmd = "rev-parse" ->
         \* isLandedBranch: if (currentBranch !== landedBranch) onLandedBranch()
         IF p.branch # t.landed THEN <<Proc("checkout", 0, <<>>, p.flow)>> ELSE <<>>
    [] p.cmd = "log -1" ->
         \* if (!gitLogBody.includes('PR-URL:')) ... await getRepoName()
         IF ~hasPrUrl(p.commits[1]) THEN <<Proc("config", 0, <<>>, p.flow)>> ELSE <<>>
    [] p.cmd = "config" -> <<Proc("https.get", 0, <<>>, p.flow)>>
    [] p.cmd = "https.get" -> <<Proc("commit --amend", 0, <<>>, p.flow)>>
    [] OTHER -> <<>>

\* the callback of command i, or the code after the await on it, runs; an
\* error ends the process (process.exit(1), or the rejection no one handles)
Callback(i) ==
  /\ tool.phase = "running" /\ tool.procs[i].st = "ran"
  /\ tool' = IF tool.procs[i].err
             THEN [tool EXCEPT !.phase = "exited", !.procs[i].st = "done"]
             ELSE [tool EXCEPT !.procs = [@ EXCEPT ![i].st = "done"]
                                           \o Continue(tool, tool.procs[i])]
  /\ UNCHANGED labelVars

LandRuns ==
  UNION {{LandRun(landed, flags, head, n, withUrl) :
            flags \in {{}, {"--cherry-pick"}, {"--push"}},
            head \in {Feature, landed}, n \in 1..MaxCommits, withUrl \in BOOLEAN} :
         landed \in {Master, Stable}}

InitLand ==
  /\ tool \in LandRuns
  /\ InitIdle

NextLand ==
  \/ LandStart
  \/ \E i \in 1..Len(tool.procs) : GitRuns(i)
  \/ \E i \in 1..Len(tool.procs) : GitFails(i)
  \/ \E i \in 1..Len(tool.procs) : Callback(i)

SpecLand == InitLand /\ [][NextLand]_vars

\* the commands cmd of block flow
ProcsOf(cmd, flow) ==
  {i \in 1..Len(tool.procs) : tool.procs[i].cmd = cmd /\ tool.procs[i].flow = flow}

\* command i has completed without error
Completed(i) == tool.procs[i].st = "done" /\ ~tool.procs[i].err

\* C28: with --push, git push is started only when the check of the current
\* branch and, if the current branch is not the landed branch, the checkout
\* of the landed branch have completed, and it runs with the landed branch
\* checked out
C28_PushAfterCheckout ==
  (tool.name = "land" /\ "--push" \in tool.flags) =>
    \A i \in ProcsOf("push", "--push") :
      /\ \E j \in ProcsOf("rev-parse", "--push") :
           /\ Completed(j)
           /\ tool.procs[j].branch # tool.landed =>
                \E k \in ProcsOf("checkout", "--push") : Completed(k)
      /\ (tool.procs[i].st # "spawned" /\ ~tool.procs[i].err) =>
           tool.procs[i].branch = tool.landed

\* C29: with --cherry-pick, the commits to apply are listed while the source
\* branch is checked out, git cherry-pick is started only when the checkout
\* of the landed branch has completed, and what it applies to the landed
\* branch are the commits of the source branch in their order
C29_CherryPickAfterCheckout ==
  (tool.name = "land" /\ "--cherry-pick" \in tool.flags) =>
    /\ \A i \in ProcsOf("rev-list", "--cherry-pick") \cup ProcsOf("log", "--cherry-pick") :
         (tool.procs[i].st # "spawned") => tool.procs[i].head = tool.source
    /\ \A i \in ProcsOf("cherry-pick", "--cherry-pick") :
         /\ \E k \in ProcsOf("checkout", "--cherry-pick") : Completed(k)
         /\ (tool.procs[i].st # "spawned" /\ ~tool.procs[i].err) =>
              /\ tool.procs[i].head = tool.landed
              /\ tool.procs[i].commits = NotOnMaster(tool, tool.source)

\* ====================================== land, the target-branch revision
\* This revision runs its steps one after the other in one async function,
\* adds the PR-URL line to every commit of the source branch that lacks it
\* and then, with --cherry-pick, starts the checkout of the target branch
\* and git cherry-pick without awaiting either.

\* the hashes of the commits of a sequence
Hashes(q) == {q[k][1] : k \in 1..Len(q)}

\* the commits a..b of git: on branch b and not on branch a, oldest first
RangeOf(t, a, b) ==
  LET idx == SelectIdx([i \in 1..Len(t.branches[b]) |->
                          t.branches[b][i][1] \notin Hashes(t.branches[a])],
                       Len(t.branches[b]), 1)
  IN [k \in 1..Len(idx) |-> t.branches[b][idx[k]]]

\* land [<target-branch>] [--cherry-pick] [--clipboardy] run with branch
\* feature checked out: feature has n commits that the target has not, the
\* target m commits that feature has not, the last commit of feature with
\* or without PR-URL; lookups counts the calls of httpsGet, clipboard is
\* what clipboardy.write has been given after 'Landed in '
TargetRun(target, flags, n, m, withUrl) ==
  [name |-> "land-target", phase |-> "init", at |-> "", target |-> target,
   flags |-> flags, withUrl |-> withUrl, sourceBranch |-> "", head |-> Feature,
   branches |-> [b \in Branches |->
                   IF b = Feature
                   THEN <<PlainCommit(0)>> \o
                        [k \in 1..n |-> IF k = n /\ withUrl THEN Amended(PlainCommit(k))
                                        ELSE PlainCommit(k)]
                   ELSE IF b = target
                   THEN <<PlainCommit(0)>> \o [k \in 1..m |-> PlainCommit(10 + k)]
                   ELSE <<PlainCommit(0)>>],
   commitsCount |-> 0, differCommitsHash |-> <<>>, i |-> 0, urlRequest |-> FALSE,
   commitsHashArr |-> <<>>, procs |-> <<>>, lookups |-> 0, clipboard |-> <<>>]

\* the script starts: const sourceBranch = await currentBranch()
TargetStart ==
  /\ tool.phase = "init"
  /\ tool' = [tool EXCEPT !.phase = "running", !.at = "currentBranch"]
  /\ UNCHANGED labelVars

\* the commit of the source branch with hash h, and its position
CommitAt(t, h) == CHOOSE k \in 1..Len(t.branches[t.sourceBranch]) :
                    t.branches[t.sourceBranch][k][1] = h

\* the for loop goes to its next hash, git checkout ${hash}, or ends; at
\* its end --cherry-pick starts the checkout and the cherry-pick, and
\* --clipboardy writes `Landed in ${commitsHashArr.join(', ')}`
NextHash(t) ==
  IF t.i < Len(t.differCommitsHash)
  THEN [t EXCEPT !.i = @ + 1, !.head = "detached", !.at = "gitLog"]
  ELSE [t EXCEPT !.i = @ + 1, !.at = "end",
                 !.procs = IF "--cherry-pick" \in t.flags
                           THEN <<Proc("checkout", 0, <<>>, "--cherry-pick"),
                                  Proc("cherry-pick", 0, <<>>, "--cherry-pick")>>
                           ELSE <<>>,
                 !.clipboard = IF "--clipboardy" \in t.flags THEN t.commitsHashArr ELSE @]

\* the command the function awaits has succeeded and the function runs on
\* to its next await
Awaited ==
  /\ tool.phase = "running"
  /\ tool.at \in {"currentBranch", "differCommits", "commitsHash", "gitLog",
                  "getRepoName", "httpsGet", "lastCommitHash"}
  /\ LET hash == tool.differCommitsHash[tool.i]
         k == CommitAt(tool, hash)
     IN tool' =
          CASE tool.at = "currentBranch" ->
                 [tool EXCEPT !.sourceBranch = tool.head, !.at = "differCommits"]
            [] tool.at = "differCommits" ->
                 \* git rev-list --count ${targetBranch}..HEAD
                 [tool EXCEPT !.commitsCount = Len(RangeOf(tool, tool.target, tool.head)),
                              !.at = "commitsHash"]
            [] tool.at = "commitsHash" ->
                 \* git log -${count} --pretty=format:%h, split into lines
                 LET b == tool.branches[tool.head]
                     c == Min(tool.commitsCount, Len(b))
                     last == Reverse(SubSeq(b, Len(b) - c + 1, Len(b)))
                 IN NextHash([tool EXCEPT !.differCommitsHash = [j \in 1..c |-> last[j][1]],
                                          !.i = 0])
            [] tool.at = "gitLog" ->
                 IF hasPrUrl(tool.branches[tool.sourceBranch][k])
                 THEN NextHash([tool EXCEPT !.commitsHashArr = Append(@, PlainCommit(hash)),
                                            !.head = tool.sourceBranch])
                 ELSE IF tool.urlRequest THEN [tool EXCEPT !.at = "lastCommitHash"]
                 ELSE [tool EXCEPT !.at = "getRepoName"]
            [] tool.at = "getRepoName" ->
                 \* https.get(`https://api.github.com/repos/${repoName}/pulls...`)
                 [tool EXCEPT !.at = "httpsGet", !.lookups = @ + 1]
            [] tool.at = "httpsGet" ->
                 \* git commit --amend --allow-empty --message='... PR-URL: ...'
                 [tool EXCEPT !.urlRequest = TRUE, !.at = "lastCommitHash"]
            [] tool.at = "lastCommitHash" ->
                 \* git checkout ${sourceBranch}; git replace -f ${hash} ${modified}
                 NextHash([tool EXCEPT
                             !.branches[tool.sourceBranch][k] = Amended(@),
                             !.commitsHashArr = @ \o <<Amended(PlainCommit(hash)), PlainCommit(hash)>>,
                             !.head = tool.sourceBranch])
  /\ UNCHANGED labelVars

\* the command the function awaits fails: catch, process.exit(1); a failed
\* https request rejects httpsGet, which no one catches
AwaitFails ==
  /\ tool.phase = "running"
  /\ tool.at \in {"currentBranch", "differCommits", "commitsHash", "gitLog",
                  "getRepoName", "httpsGet", "lastCommitHash"}
  /\ tool' = [tool EXCEPT !.phase = "exited"]
  /\ UNCHANGED labelVars

\* the spawned command i runs: git checkout ${targetBranch}, or
\* git cherry-pick ${sourceBranch}..${targetBranch} on the branch that is
\* checked out
TargetGitRuns(i) ==
  /\ tool.phase = "running" /\ tool.at = "end" /\ tool.procs[i].st = "spawned"
  /\ LET p == [tool.procs[i] EXCEPT !.st = "ran", !.head = tool.head]
         commits == RangeOf(tool, tool.sourceBranch, tool.target)
     IN tool' =
          IF p.cmd = "checkout"
          THEN [tool EXCEPT !.head = tool.target, !.procs[i] = p]
          ELSE IF CherryPickFails(tool, commits)
          THEN [tool EXCEPT !.procs[i] = [p EXCEPT !.err = TRUE]]
          ELSE [tool EXCEPT !.procs[i] = [p EXCEPT !.commits = commits],
                            !.branches[tool.head] = @ \o commits]
  /\ UNCHANGED labelVars

\* the spawned command i fails for another reason
TargetGitFails(i) ==
  /\ tool.phase = "running" /\ tool.at = "end" /\ tool.procs[i].st = "spawned"
  /\ tool' = [tool EXCEPT !.procs[i] = [@ EXCEPT !.st = "ran", !.err = TRUE, !.head = tool.head]]
  /\ UNCHANGED labelVars

\* the callback of command i: if (err) process.exit(1)
TargetCallback(i) ==
  /\ tool.phase = "running" /\ tool.procs[i].st = "ran"
  /\ tool' = [tool EXCEPT !.procs[i].st = "done",
                          !.phase = IF tool.procs[i].err THEN "exited" ELSE @]
  /\ UNCHANGED labelVars

TargetRuns ==
  {TargetRun(target, flags, n, m, withUrl) :
     target \in {Master, Stable}, flags \in {{}, {"--cherry-pick"}, {"--clipboardy"}},
     n \in 1..MaxCommits, m \in 0..MaxCommits, withUrl \in BOOLEAN}

InitTarget ==
  /\ tool \in TargetRuns
  /\ InitIdle

NextTarget ==
  \/ TargetStart
  \/ Awaited
  \/ AwaitFails
  \/ \E i \in 1..Len(tool.procs) : TargetGitRuns(i)
  \/ \E i \in 1..Len(tool.procs) : TargetGitFails(i)
  \/ \E i \in 1..Len(tool.procs) : TargetCallback(i)

SpecTarget == InitTarget /\ [][NextTarget]_vars

\* C30: with --cherry-pick, the commits that git cherry-pick has applied
\* are applied to the target branch and are the commits reachable from the
\* source branch and not from the target branch
C30_CherryPickSet ==
  (tool.name = "land-target" /\ "--cherry-pick" \in tool.flags) =>
    \A i \in ProcsOf("cherry-pick", "--cherry-pick") :
      tool.procs[i].st # "spawned" =>
        /\ ~tool.procs[i].err
        /\ tool.procs[i].head = tool.target
        /\ Hashes(tool.procs[i].commits) =
             Hashes(tool.branches[tool.sourceBranch]) \ Hashes(tool.branches[tool.target])

\* the requests of the invocation with the given method
WithMethod(method) == {i \in 1..Len(reqs) : reqs[i].method = method}

\* the pages of the issue listing that have been fetched with success
IssuePagesOk ==
  {PageOf(reqs[i].path) : i \in {j \in WithMethod("GET") : /\ reqs[j].path.res = "issues"
                                                          /\ reqs[j].st = "ok"}}

Targeted(method) ==
  {TargetName(reqs[i]) : i \in {j \in WithMethod(method) : reqs[j].st = "ok"}}

\* C32: a label of the destination that the dry run lists under 'Following
\* labels will not be changed' is neither deleted nor updated by the run for
\* real with the same arguments on the same repositories
C32_UnchangedIsSound ==
  (tool.phase # "none" /\ RealRunFinished) =>
    \A k \in 1..Len(tool.report.unchanged) :
      tool.report.unchanged[k].name \notin Targeted("DELETE") \cup Targeted("PATCH")

\* ------------------------- the LabelHandler that takes callbacks
\* (src/lib/labels.js, from line 268 on): copyFrom(repo,
\* updateExistingLabels, cb) and copyTo(repo, updateExistingLabels, cb)
\* the repository a path names when an object was put in the place of the
\* name: /repos/[object Object]/labels
NoSuchRepo == "[object Object]"

\* no request is being made
NoReq == [method |-> "none", repo |-> NoSuchRepo, body |-> NoLabel, st |-> "none", data |-> <<>>]

\* this[request](path, method, data, cb): the request has been sent
CbRequest(method, repo, body) ==
  [method |-> method, repo |-> repo, body |-> body, st |-> "sent", data |-> <<>>]

\* a call of copyFrom or copyTo with a repository name ("string"), a label
\* ("object") or an array of labels in the place of repo: the repositories
\* as the hosting service holds them, what is scheduled next (pending: the
\* call itself, a process.nextTick, a request, a setImmediate, or nothing
\* any more), the callback the answer of the request goes to (at), the
\* locals labels, curLabels and the position i of metasync.series, the
\* request that is being made, and how often the callback of the caller
\* has been invoked (calls) with what error (err)
CbRun(fn, kind, arg, update, src, dst) ==
  [name |-> "labels-callback", fn |-> fn, kind |-> kind, arg |-> arg, update |-> update,
   repos |-> [r \in Repos |-> IF r = CurRepo THEN dst ELSE src],
   pending |-> "call", at |-> "none", labels |-> <<>>, curLabels |-> {}, i |-> 0,
   req |-> NoReq, calls |-> 0, err |-> FALSE, thrown |-> FALSE]

\* the callback of the caller is invoked
CallerCb(t, err) == [t EXCEPT !.calls = @ + 1, !.err = err, !.pending = "none", !.req = NoReq]

\* the repository copyFrom and copyTo copy to: this.options.repo for
\* copyFrom, the argument repo for copyTo, whatever it is
CopyTarget(t) ==
  IF t.fn = "copyFrom" THEN CurRepo
  ELSE IF t.kind = "string" THEN OtherRepo ELSE NoSuchRepo

\* metasync.series(labels, fn, cb), the step next() for the item at i: past
\* the last item the callback is invoked; for the item, a label that is
\* there is updated when updateExistingLabels is set, and otherwise
\* nothing is done and the callback of the item is never invoked; a label
\* that is not there is created
series(t, i) ==
  IF i > Len(t.labels) THEN CallerCb([t EXCEPT !.i = i], FALSE)
  ELSE IF t.labels[i].name \in t.curLabels
       THEN IF t.update
            THEN [t EXCEPT !.i = i, !.at = "item", !.pending = "request",
                           !.req = CbRequest("PATCH", CopyTarget(t), t.labels[i])]
            ELSE [t EXCEPT !.i = i, !.at = "item", !.pending = "none", !.req = NoReq]
       ELSE [t EXCEPT !.i = i, !.at = "item", !.pending = "request",
                      !.req = CbRequest("POST", CopyTarget(t), t.labels[i])]

\* the callback copyFrom and copyTo hand to runIf: (err, labels) => ...
OnLabels(t, err, ls) ==
  IF err THEN CallerCb(t, TRUE)
  ELSE [t EXCEPT !.labels = ls, !.at = "current", !.pending = "request",
                 !.req = CbRequest("GET", CopyTarget(t), NoLabel)]

\* the callback of this.get / this.getFrom(repo, ...) for the labels that
\* are there: (err, curLabels) => ...
OnCurLabels(t, err, ls) ==
  IF err THEN CallerCb(t, TRUE)
  ELSE series([t EXCEPT !.curLabels = Names(ls), !.req = NoReq], 1)

\* the callback metasync.series hands to the function of an item
OnItem(t, err) ==
  IF err THEN CallerCb(t, TRUE)
  ELSE [t EXCEPT !.pending = "immediate", !.req = NoReq]

\* runIf(condition, defaultVal, asyncFn, callback) as copyFrom and copyTo
\* call it: with a repository name asyncFn is called, copyFrom's arrow
\* function that calls this.getFrom(repo, cb), copyTo's this.get, which is
\* called without its object and throws a TypeError out of copyTo; with
\* labels the callback is scheduled by process.nextTick
runIf ==
  /\ tool.name = "labels-callback" /\ tool.pending = "call"
  /\ tool' = IF tool.kind = "string"
             THEN IF tool.fn = "copyTo"
                  THEN [tool EXCEPT !.pending = "none", !.thrown = TRUE]
                  ELSE [tool EXCEPT !.pending = "request", !.at = "labels",
                                    !.req = CbRequest("GET", OtherRepo, NoLabel)]
             ELSE [tool EXCEPT !.pending = "tick", !.at = "labels"]
  /\ UNCHANGED labelVars

\* process.nextTick(callback, null, defaultVal)
NextTick ==
  /\ tool.name = "labels-callback" /\ tool.pending = "tick"
  /\ tool' = OnLabels(tool, FALSE, tool.arg)
  /\ UNCHANGED labelVars

\* the hosting service answers the request with the status the method
\* expects: the labels of a repository there is, a label created that was
\* not there, a label updated that was there
CbServe ==
  /\ tool.name = "labels-callback" /\ tool.pending = "request" /\ tool.req.st = "sent"
  /\ LET r == tool.req
     IN /\ r.repo \in Repos
        /\ CASE r.method = "GET" ->
                  tool' = [tool EXCEPT !.req.st = "ok", !.req.data = tool.repos[r.repo]]
             [] r.method = "POST" ->
                  /\ ~HasName(tool.repos[r.repo], r.body.name)
                  /\ tool' = [tool EXCEPT !.req.st = "ok",
                                          !.repos[r.repo] = Append(@, r.body)]
             [] r.method = "PATCH" ->
                  /\ HasName(tool.repos[r.repo], r.body.name)
                  /\ tool' = [tool EXCEPT !.req.st = "ok",
                        !.repos[r.repo][IndexOfName(tool.repos[r.repo], r.body.name)] = r.body]
  /\ UNCHANGED labelVars

\* the request completes with another status or with a socket error
CbRefuse ==
  /\ tool.name = "labels-callback" /\ tool.pending = "request" /\ tool.req.st = "sent"
  /\ tool' = [tool EXCEPT !.req.st = "failed"]
  /\ UNCHANGED labelVars

\* the callback of the request is called: cb(null, data) or cb(err)
CbDeliver ==
  /\ tool.name = "labels-callback" /\ tool.pending = "request"
  /\ tool.req.st \in {"ok", "failed"}
  /\ LET err == tool.req.st = "failed"
     IN tool' = CASE tool.at = "labels" -> OnLabels(tool, err, tool.req.data)
                  [] tool.at = "current" -> OnCurLabels(tool, err, tool.req.data)
                  [] tool.at = "item" -> OnItem(tool, err)
  /\ UNCHANGED labelVars

\* setImmediate(next) of metasync.series
Immediate ==
  /\ tool.name = "labels-callback" /\ tool.pending = "immediate"
  /\ tool' = series(tool, tool.i + 1)
  /\ UNCHANGED labelVars

CbRuns ==
  {CbRun(fn, "string", <<>>, u, src, dst) :
     fn \in {"copyFrom", "copyTo"}, u \in BOOLEAN,
     src \in Prefixes(FullSource, MaxLabels), dst \in Prefixes(FullDestination, MaxLabels)}
  \cup {CbRun(fn, "object", <<l>>, u, src, dst) :
     fn \in {"copyFrom", "copyTo"}, u \in BOOLEAN, l \in Range(FullSource),
     src \in {<<>>}, dst \in Prefixes(FullDestination, MaxLabels)}
  \cup {CbRun(fn, "array", ls, u, src, dst) :
     fn \in {"copyFrom", "copyTo"}, u \in BOOLEAN, ls \in Prefixes(FullSource, MaxSource),
     src \in {<<>>}, dst \in Prefixes(FullDestination, MaxLabels)}

InitCallback ==
  /\ InitIdle
  /\ tool \in CbRuns

NextCallback ==
  \/ runIf
  \/ NextTick
  \/ CbServe
  \/ CbRefuse
  \/ CbDeliver
  \/ Immediate

SpecCallback == InitCallback /\ [][NextCallback]_vars

\* C33: copyFrom and copyTo that take a callback invoke the callback of the
\* caller exactly once: never more than once, and once when every request
\* has completed and nothing is scheduled any more
C33_CallbackOnce ==
  tool.name = "labels-callback" =>
    /\ tool.calls <= 1
    /\ tool.pending = "none" => tool.calls = 1

\* ------------------------------------------- Cli (src/lib/cli.js, 39-267)
\* a value of the script: its kind and what it is written as (the elements,
\* for an array)
Val(k, v) == [k |-> k, v |-> v]
Undefined == Val("undefined", <<>>)
Str(x) == Val("string", <<x>>)
Bool(b) == Val("boolean", <<IF b THEN "true" ELSE "false">>)
Num(x) == Val("number", <<x>>)
Arr(xs) == Val("array", xs)

\* the conversion of a value to a boolean that if (...) applies
Truthy(x) ==
  CASE x.k = "undefined" -> FALSE
    [] x.k = "string" -> x.v # <<"">>
    [] x.k = "boolean" -> x.v = <<"true">>
    [] x.k = "number" -> x.v # <<"0">>
    [] x.k = "array" -> TRUE

\* a property of an object: not there, or there with a value
Absent == [has |-> FALSE, val |-> Undefined]
Has(x) == [has |-> TRUE, val |-> x]

\* obj[name], of an object with the one property the run is about
Get(prop) == IF prop.has THEN prop.val ELSE Undefined

\* { ...a, ...b }
Spread(a, b) == IF b.has THEN b ELSE a

\* Number.parseFloat(str) || 0, on the strings of the runs
parseFloat(str) == IF str \in {"3", "5", "7"} THEN Num(str) ELSE Num("0")

\* Cli[parseArg](type, str); "" stands for no str (undefined)
parseArg(type, str) ==
  CASE type = "boolean" -> Bool(str \in {"", "true"})
    [] type = "number" -> parseFloat(str)
    [] OTHER -> IF str = "" THEN Undefined ELSE Str(str)

\* this.parsedOptions[name]++
Increment(x) ==
  CASE x = Num("0") -> Num("1")
    [] x = Num("1") -> Num("2")
    [] OTHER -> Val("number", <<"NaN">>)

\* the options of Cli.option(name, options), defaultOptions applied
CliOpt(type, array, default) == [type |-> type, array |-> array, default |-> default]

\* a run of a tool that declares one option and parses its command line:
\* the option, what the command line gives for it (given, str; --name=str,
\* --no-name for a boolean, --name for a counter), whether --config=path is
\* there and what the file at path holds for the option (no file, or an
\* object without or with the property), this.parsedOptions[name] and
\* args[name]
CliRun(opt, given, str, configArg, file) ==
  [name |-> "cli", phase |-> "option", opt |-> opt, given |-> given, str |-> str,
   configArg |-> configArg, file |-> file, parsedOptions |-> Absent, args |-> Absent]

\* Cli.option(name, options)
CliOption ==
  /\ tool.name = "cli" /\ tool.phase = "option"
  /\ LET opts == IF tool.opt.type = "counter" THEN [tool.opt EXCEPT !.array = FALSE]
                 ELSE tool.opt
         counted == IF opts.type = "counter" THEN Has(Num("0")) ELSE Absent
         declared ==
           IF opts.array
           THEN IF Truthy(opts.default)
                THEN IF opts.default.k = "array" THEN Has(opts.default)
                     ELSE Has(Arr(opts.default.v))
                ELSE Has(Arr(<<>>))
           ELSE IF Truthy(opts.default) THEN Has(opts.default)
           ELSE counted
     IN tool' = [tool EXCEPT !.phase = "parseArgs", !.opt = opts, !.parsedOptions = declared]
  /\ UNCHANGED labelVars

\* Cli[parseOption](name, ...args), for the option of the command line
parseOption(t) ==
  CASE t.opt.type = "counter" -> Has(Increment(Get(t.parsedOptions)))
    [] t.opt.array -> Has(Arr(Get(t.parsedOptions).v \o parseArg(t.opt.type, t.str).v))
    [] OTHER -> Has(parseArg(t.opt.type, t.str))

\* Cli[parseArgs](argv.slice(2)), called by Cli.parse
CliParseArgs ==
  /\ tool.name = "cli" /\ tool.phase = "parseArgs"
  /\ LET parsed == IF tool.given THEN parseOption(tool) ELSE tool.parsedOptions
     IN tool' = [tool EXCEPT !.phase = "config", !.parsedOptions = parsed, !.args = parsed]
  /\ UNCHANGED labelVars

\* Cli.parse: if (args.config && fs.existsSync(args.config)) the object of
\* the file is put under args
CliConfig ==
  /\ tool.name = "cli" /\ tool.phase = "config"
  /\ tool' = [tool EXCEPT !.phase = "defaults",
                !.args = IF tool.configArg /\ tool.file # Val("missing", <<>>)
                         THEN Spread(IF tool.file = Val("object", <<>>) THEN Absent
                                     ELSE Has(tool.file), tool.args)
                         ELSE tool.args]
  /\ UNCHANGED labelVars

\* Cli.parse: the default of an option that is still undefined
CliDefaults ==
  /\ tool.name = "cli" /\ tool.phase = "defaults"
  /\ tool' = [tool EXCEPT !.phase = "parsed",
                !.args = IF Get(tool.args) = Undefined /\ tool.opt.default # Undefined
                         THEN Has(tool.opt.default)
                         ELSE tool.args]
  /\ UNCHANGED labelVars

\* what the declaration of an option, the command line and the file give
CliCases ==
  {[opt |-> CliOpt("string", FALSE, d), str |-> "blue", file |-> Str("green")] :
     d \in {Undefined, Str(""), Str("red")}}
  \cup {[opt |-> CliOpt("boolean", FALSE, d), str |-> "false", file |-> f] :
     d \in {Undefined, Bool(FALSE), Bool(TRUE)}, f \in {Bool(FALSE), Bool(TRUE)}}
  \cup {[opt |-> CliOpt("number", FALSE, d), str |-> x, file |-> Num("3")] :
     d \in {Undefined, Num("0"), Num("5")}, x \in {"7", "0"}}
  \cup {[opt |-> CliOpt("counter", FALSE, Undefined), str |-> "", file |-> Num("3")]}
  \cup {[opt |-> CliOpt("string", TRUE, d), str |-> "blue", file |-> Arr(<<"green">>)] :
     d \in {Undefined, Str("red"), Arr(<<"red">>)}}

CliRuns ==
  {CliRun(c.opt, given, c.str, configArg, file) :
     c \in CliCases, given \in BOOLEAN, configArg \in BOOLEAN,
     file \in {Val("missing", <<>>), Val("object", <<>>)}}
  \cup {CliRun(c.opt, given, c.str, configArg, c.file) :
     c \in CliCases, given \in BOOLEAN, configArg \in BOOLEAN}

InitCli ==
  /\ InitIdle
  /\ tool \in CliRuns

NextCli ==
  \/ CliOption
  \/ CliParseArgs
  \/ CliConfig
  \/ CliDefaults

SpecCli == InitCli /\ [][NextCli]_vars

\* the file given by --config is there and has a value for the option
ConfigSupplies(t) == t.configArg /\ t.file.k \notin {"missing", "object"}

\* C34: the value Cli.parse returns for an option is the value of the
\* command line when the command line gives one (the last element, for an
\* array), else the value of the --config file when the file has one, else
\* the declared default, which is used only when neither supplies a value
C34_Precedence ==
  (tool.name = "cli" /\ tool.phase = "parsed") =>
    LET result == Get(tool.args)
    IN IF tool.given
       THEN IF tool.opt.array
            THEN result.k = "array" /\ result.v # <<>>
                 /\ <<result.v[Len(result.v)]>> = parseArg(tool.opt.type, tool.str).v
            ELSE IF tool.opt.type = "counter" THEN result = Num("1")
            ELSE result = parseArg(tool.opt.type, tool.str)
       ELSE IF ConfigSupplies(tool) THEN result = tool.file
       ELSE IF tool.opt.default # Undefined /\ ~tool.opt.array THEN result = tool.opt.default
       ELSE TRUE

\* ------------------------------------------ update-authors, git log fails
\* C35: when git log exits with a code other than 0, the output file is
\* never opened (and so neither truncated nor written), and when the tool
\* has exited it has exited with that code, whichever of the 'close' events
\* of the child process and of the linereader is handled first
C35_FailureSafety ==
  (tool.name = "update-authors" /\ tool.gitLog = "fails") =>
    /\ ~tool.opened
    /\ tool.phase = "exited" => tool.exit = GitLogCode

\* ------------------------------------------- the 'Landed in' message
\* the commits between the target branch and HEAD when the run starts, by
\* their hashes: the commits of feature that the target has not
LandedCommits(t) == 1..(Len(t.branches[Feature]) - 1)

\* the hash the message has to list for commit k: the hash of the amended
\* commit when the commit got its PR-URL line in this run
LandedHash(t, k) ==
  IF t.withUrl /\ k = Len(t.branches[Feature]) - 1 THEN PlainCommit(k)
  ELSE Amended(PlainCommit(k))

\* C36: with --clipboardy the message 'Landed in ...' lists one hash for
\* each commit between the target branch and HEAD, the hash of the amended
\* commit when the commit was given a PR-URL and the hash the commit had
\* otherwise, and the PR-URL is looked up at most once in a run
C36_LandedMessage ==
  tool.name = "land-target" =>
    /\ tool.lookups <= 1
    /\ ("--clipboardy" \in tool.flags /\ tool.at = "end") =>
         /\ Len(tool.clipboard) = Cardinality(LandedCommits(tool))
         /\ \A k \in LandedCommits(tool) :
              \E j \in 1..Len(tool.clipboard) : tool.clipboard[j] = LandedHash(tool, k)

====
